---- MODULE Spec2Model ----
(***************************************************************************)
(* glume: the viewport-composition render tree                             *)
(* (src/src/renderers/basic_renderers/mod.rs) and the window event/tick    *)
(* dispatcher (src/src/window/mod.rs).                                     *)
(*                                                                         *)
(* These specifications share the module:                                 *)
(*   Spec      the run loop: one action per native event dispatched by     *)
(*             Window::run's closure through process_event, with every     *)
(*             kind of native event, over a short time;                    *)
(*   TickSpec  the same run loop over a longer time, with one payload per  *)
(*             kind of native event;                                       *)
(*   CallSpec  process_event called from any state of the controller;      *)
(*   AccountSpec  the run loop with the account of the ticks delivered     *)
(*             since the Start dispatch;                                   *)
(*   MethodSpec  the run loop with a handler that calls every method of    *)
(*             the controller;                                             *)
(*   RenderSpec  nested render trees and render();                         *)
(*   TreeSpec  the render tree: constructors, set_viewport and the         *)
(*             variant-specific setters;                                   *)
(*   TreeMutSpec  the render tree with set_viewport called on the children *)
(*             the get_*_mut getters hand out.                             *)
(* Time is counted in whole seconds.  f32 values (split ratios, aspect     *)
(* ratios) are rationals num/den; `as i32` is truncation toward zero.      *)
(* i32 values stay far from the i32 limits, so no arithmetic overflows.    *)
(***************************************************************************)
EXTENDS Integers, Sequences, FiniteSets, TLC

VARIABLES
    \* ---- render tree ----
    tree,          \* the root renderer (NoTree before construction)
    panicked,      \* a render-tree call panicked: the thread unwound and the
                   \* tree was dropped with it
    last_call,     \* the last public call on the root and the fields it ran with
    drawn,         \* the render() calls the last render() of the root made, in
                   \* the order they began
    \* ---- window / run loop ----
    clock,         \* the last value read from Instant::now()
    windata,       \* WinData: tick_duration, next_tick, modifiers, context size
    control_flow,  \* the event loop's ControlFlow
    phase,         \* the event loop's place in its iteration: NotStarted,
                   \* Events, Redraw, Idle, Destroyed, Hung
    exit_flagged,  \* some dispatch has returned a status with exit = true
    closed,        \* some dispatch whose handler called close() has returned
                   \* a status
    ticked,        \* the tick account since the Start dispatch: the next_tick
                   \* it left, the ticks_passed delivered since, and what has
                   \* been done to the tick settings since
    disp           \* what the last dispatch (one call of process_event) did

tree_vars == <<tree, panicked, last_call, drawn>>
win_vars == <<clock, windata, control_flow, phase, exit_flagged, closed,
              ticked, disp>>
vars == <<tree, panicked, last_call, drawn, clock, windata, control_flow, phase,
          exit_flagged, closed, ticked, disp>>

(***************************************************************************)
(* Bounds of the model.                                                    *)
(***************************************************************************)
MaxSize == 3
MaxNeg == 1
MaxAbs == 5
RatioDen == 4
MaxInset == 3
MaxAspect == 2
MaxTime == 2
MaxDuration == 1
MaxTickTime == 7
MaxTickDuration == 2
MaxHandlerDelay == 1
MaxAccountTime == 5

(***************************************************************************)
(* Arithmetic helpers.                                                     *)
(***************************************************************************)
Max(a, b) == IF a >= b THEN a ELSE b
Min(a, b) == IF a <= b THEN a ELSE b

\* n/d truncated toward zero (d > 0): Rust's integer division and `as i32`.
Trunc(n, d) == IF n >= 0 THEN n \div d ELSE -((-n) \div d)

\* (x as f32 * r) as i32 for r = num/den, den > 0
mul_as_i32(x, r) == Trunc(x * r.num, r.den)

\* (x as f32 / r) as i32 for r = num/den, num # 0, den > 0
div_as_i32(x, r) ==
    IF r.num > 0 THEN Trunc(x * r.den, r.num) ELSE Trunc(-(x * r.den), -r.num)

(***************************************************************************)
(* IntRect and the renderers' parameters.                                  *)
(***************************************************************************)
IntRect(pos, size) == [pos |-> pos, size |-> size]

IntRect_default == IntRect(<<0, 0>>, <<0, 0>>)

Absolute(x) == [tag |-> "Absolute", num |-> x, den |-> 1]
Ratio(n, d) == [tag |-> "Ratio", num |-> n, den |-> d]
InsetParam(k) == [tag |-> "Inset", num |-> k, den |-> 1]
AspectRatio(n, d) == [tag |-> "AspectRatio", num |-> n, den |-> d]
NoParam == [tag |-> "None", num |-> 0, den |-> 1]

\* The inputs the actions draw from.
Positions == {<<0, 0>>, <<1, 2>>}

Rects ==
    { IntRect(pos, <<w, h>>) :
        pos \in Positions, w \in (-MaxNeg)..MaxSize, h \in (-MaxNeg)..MaxSize }

SplitPoints ==
    { Absolute(x) : x \in (-MaxAbs)..MaxAbs }
        \cup { Ratio(n, RatioDen) : n \in (-1)..(RatioDen + 1) }

Insets == (-MaxNeg)..MaxInset

AspectRatios ==
    { AspectRatio(n, d) : n \in ((-MaxAspect)..MaxAspect) \ {0}, d \in 1..MaxAspect }

(***************************************************************************)
(* SplitPoint::to_absolute.  i32::clamp(min, max) asserts min <= max, so   *)
(* the call panics for a negative viewport_size.                           *)
(***************************************************************************)
\* a resolution without the final clamp
to_absolute_unclamped(split_point, viewport_size) ==
    LET sp0 == IF split_point.tag = "Absolute"
               THEN split_point.num
               ELSE mul_as_i32(viewport_size, split_point)
    IN  [panic |-> FALSE, val |-> IF sp0 < 0 THEN viewport_size + sp0 ELSE sp0]

to_absolute(split_point, viewport_size) ==
    LET sp0 == IF split_point.tag = "Absolute"
               THEN split_point.num
               ELSE mul_as_i32(viewport_size, split_point)
        sp == IF sp0 < 0 THEN viewport_size + sp0 ELSE sp0
    IN  IF 0 > viewport_size
        THEN [panic |-> TRUE, val |-> 0]
        ELSE [panic |-> FALSE,
              val |-> IF sp < 0 THEN 0
                      ELSE IF sp > viewport_size THEN viewport_size ELSE sp]

(***************************************************************************)
(* The child rects each composite derives.                                 *)
(***************************************************************************)
\* SplitRenderer::reset_subrenderer_viewports, the two branches
Split_child_rects(viewport_rect, horizontal, sp) ==
    IF horizontal
    THEN <<IntRect(viewport_rect.pos, <<sp, viewport_rect.size[2]>>),
           IntRect(<<viewport_rect.pos[1] + sp, viewport_rect.pos[2]>>,
                   <<viewport_rect.size[1] - sp, viewport_rect.size[2]>>)>>
    ELSE <<IntRect(viewport_rect.pos, <<viewport_rect.size[1], sp>>),
           IntRect(<<viewport_rect.pos[1], viewport_rect.pos[2] + sp>>,
                   <<viewport_rect.size[1], viewport_rect.size[2] - sp>>)>>

\* a per-axis clamp instead of forcing both sizes to 0
Inset_irect_per_axis(viewport_rect, inset) ==
    IntRect(<<viewport_rect.pos[1] + inset, viewport_rect.pos[2] + inset>>,
            <<Max(viewport_rect.size[1] - 2 * inset, 0),
              Max(viewport_rect.size[2] - 2 * inset, 0)>>)

\* InsetRenderer::reset_subrenderer_viewports, the inside rect
Inset_irect(viewport_rect, inset) ==
    LET ix == viewport_rect.pos[1] + inset
        iy == viewport_rect.pos[2] + inset
        iw == viewport_rect.size[1] - 2 * inset
        ih == viewport_rect.size[2] - 2 * inset
        isize_ == IF iw < 0 \/ ih < 0 THEN <<0, 0>> ELSE <<iw, ih>>
    IN  IntRect(<<ix, iy>>, isize_)

\* the comparison turned around: fills instead of fits
FixedAspectRatio_new_viewport_rect_fill(viewport_rect, aspect_ratio) ==
    LET viewport_size == viewport_rect.size
        new_width == mul_as_i32(viewport_size[2], aspect_ratio)
        new_height == div_as_i32(viewport_size[1], aspect_ratio)
        new_size == IF new_width > viewport_size[1]
                    THEN <<new_width, viewport_size[2]>>
                    ELSE <<viewport_size[1], new_height>>
    IN  IntRect(<<viewport_rect.pos[1] + Trunc(viewport_size[1] - new_size[1], 2),
                  viewport_rect.pos[2] + Trunc(viewport_size[2] - new_size[2], 2)>>,
                new_size)

\* FixedAspectRatioRenderer::reset_subrenderer_viewports, the child rect
FixedAspectRatio_new_viewport_rect(viewport_rect, aspect_ratio) ==
    LET viewport_size == viewport_rect.size
        new_width == mul_as_i32(viewport_size[2], aspect_ratio)
        new_height == div_as_i32(viewport_size[1], aspect_ratio)
        new_size == IF new_width < viewport_size[1]
                    THEN <<new_width, viewport_size[2]>>
                    ELSE <<viewport_size[1], new_height>>
        new_pos == <<viewport_rect.pos[1] + Trunc(viewport_size[1] - new_size[1], 2),
                     viewport_rect.pos[2] + Trunc(viewport_size[2] - new_size[2], 2)>>
    IN  IntRect(new_pos, new_size)

(***************************************************************************)
(* Renderer nodes.  kids holds the owned children in the order of the      *)
(* struct's fields: <<r1, r2>>, <<outside_renderer, inside_renderer>>,     *)
(* <<renderer>>.  A call returns the node after it and whether it panicked.*)
(***************************************************************************)
Node(kind, viewport_rect, horizontal, param, kids) ==
    [kind |-> kind, viewport_rect |-> viewport_rect, horizontal |-> horizontal,
     param |-> param, kids |-> kids]

NoTree == Node("None", IntRect_default, FALSE, NoParam, <<>>)
Dropped == Node("Dropped", IntRect_default, FALSE, NoParam, <<>>)

Returned(node) == [node |-> node, panic |-> FALSE]
Unwound(node) == [node |-> node, panic |-> TRUE]

RECURSIVE set_viewport(_, _)
RECURSIVE push_viewports(_, _)

\* self.<child i>.set_viewport(rects[i]) for each child in order; a panic
\* in one child's call leaves the later children as they were.
push_viewports(node, rects) ==
    IF rects = <<>>
    THEN Returned(node)
    ELSE LET i == Len(node.kids) - Len(rects) + 1
             r == set_viewport(node.kids[i], Head(rects))
             n1 == [node EXCEPT !.kids[i] = r.node]
         IN  IF r.panic THEN Unwound(n1) ELSE push_viewports(n1, Tail(rects))

Split_reset_subrenderer_viewports(node) ==
    LET extent == IF node.horizontal
                  THEN node.viewport_rect.size[1]
                  ELSE node.viewport_rect.size[2]
        sp == to_absolute(node.param, extent)
    IN  IF sp.panic
        THEN Unwound(node)
        ELSE push_viewports(node,
                 Split_child_rects(node.viewport_rect, node.horizontal, sp.val))

\* an inset layout that hands the shrunk rect to the outside child too
Inset_reset_subrenderer_viewports_shrinks_outside(node) ==
    push_viewports(node,
        <<Inset_irect(node.viewport_rect, node.param.num),
          Inset_irect(node.viewport_rect, node.param.num)>>)

Inset_reset_subrenderer_viewports(node) ==
    push_viewports(node,
        <<node.viewport_rect, Inset_irect(node.viewport_rect, node.param.num)>>)

FixedAspectRatio_reset_subrenderer_viewports(node) ==
    push_viewports(node,
        <<FixedAspectRatio_new_viewport_rect(node.viewport_rect, node.param)>>)

reset_subrenderer_viewports(node) ==
    CASE node.kind = "Split" -> Split_reset_subrenderer_viewports(node)
      [] node.kind = "Inset" -> Inset_reset_subrenderer_viewports(node)
      [] node.kind = "FixedAspectRatio" ->
            FixedAspectRatio_reset_subrenderer_viewports(node)

\* Renderer::set_viewport of each variant
set_viewport(node, viewport_rect) ==
    CASE node.kind = "Null" -> Returned(node)
      [] node.kind = "ClearColor" ->
            Returned([node EXCEPT !.viewport_rect = viewport_rect])
      [] OTHER ->
            reset_subrenderer_viewports([node EXCEPT !.viewport_rect = viewport_rect])

\* a setter that stores the parameter and leaves the layout to the next
\* set_viewport
set_param_lazy(node, param) == Returned([node EXCEPT !.param = param])

\* set_split_point, set_inset, set_aspect_ratio
set_param(node, param) ==
    reset_subrenderer_viewports([node EXCEPT !.param = param])

\* Constructors
NullRenderer == Node("Null", IntRect_default, FALSE, NoParam, <<>>)

ClearColorRenderer_new(viewport_rect) ==
    Node("ClearColor", viewport_rect, FALSE, NoParam, <<>>)

\* a constructor that leaves the first layout to the first set_viewport
SplitRenderer_new_lazy(viewport_rect, horizontal, split_point, r1, r2) ==
    Returned(Node("Split", viewport_rect, horizontal, split_point, <<r1, r2>>))

SplitRenderer_new(viewport_rect, horizontal, split_point, r1, r2) ==
    reset_subrenderer_viewports(
        Node("Split", viewport_rect, horizontal, split_point, <<r1, r2>>))

HSplitRenderer_new(viewport_rect, split_point, left, right) ==
    SplitRenderer_new(viewport_rect, TRUE, split_point, left, right)

VSplitRenderer_new(viewport_rect, split_point, top, bottom) ==
    SplitRenderer_new(viewport_rect, FALSE, split_point, top, bottom)

InsetRenderer_new(viewport_rect, inset, outside_renderer, inside_renderer) ==
    reset_subrenderer_viewports(
        Node("Inset", viewport_rect, FALSE, InsetParam(inset),
             <<outside_renderer, inside_renderer>>))

FixedAspectRatioRenderer_new(viewport_rect, aspect_ratio, renderer) ==
    reset_subrenderer_viewports(
        Node("FixedAspectRatio", viewport_rect, FALSE, aspect_ratio, <<renderer>>))

(***************************************************************************)
(* Renderer::render(&self).  A call returns the node as the call leaves it *)
(* and the render() calls made, in the order they began: each with the     *)
(* path of its node from the root (<<>> the root, <<1>> its first child,   *)
(* ...), the node's kind and, for a ClearColorRenderer, the rect handed to *)
(* gl_viewport.                                                            *)
(***************************************************************************)
RenderCall(node, path) ==
    [path |-> path, kind |-> node.kind, viewport_rect |-> node.viewport_rect]

RECURSIVE render(_, _)

\* a split that lays its children out again before it renders them
Split_render_lays_out(node, path) ==
    LET n0 == reset_subrenderer_viewports(node).node
        r1 == render(n0.kids[1], Append(path, 1))
        r2 == render(n0.kids[2], Append(path, 2))
    IN  [node |-> [n0 EXCEPT !.kids = <<r1.node, r2.node>>],
         drawn |-> <<RenderCall(node, path)>> \o r1.drawn \o r2.drawn]

\* SplitRenderer::render (HSplitRenderer and VSplitRenderer forward to it)
Split_render(node, path) ==
    LET r1 == render(node.kids[1], Append(path, 1))
        r2 == render(node.kids[2], Append(path, 2))
    IN  [node |-> [node EXCEPT !.kids = <<r1.node, r2.node>>],
         drawn |-> <<RenderCall(node, path)>> \o r1.drawn \o r2.drawn]

\* an inset that renders the inside child first
Inset_render_inside_first(node, path) ==
    LET r2 == render(node.kids[2], Append(path, 2))
        r1 == render(node.kids[1], Append(path, 1))
    IN  [node |-> [node EXCEPT !.kids = <<r1.node, r2.node>>],
         drawn |-> <<RenderCall(node, path)>> \o r2.drawn \o r1.drawn]

\* InsetRenderer::render: kids[1] is outside_renderer, kids[2] inside_renderer
Inset_render(node, path) ==
    LET r1 == render(node.kids[1], Append(path, 1))
        r2 == render(node.kids[2], Append(path, 2))
    IN  [node |-> [node EXCEPT !.kids = <<r1.node, r2.node>>],
         drawn |-> <<RenderCall(node, path)>> \o r1.drawn \o r2.drawn]

FixedAspectRatio_render(node, path) ==
    LET r1 == render(node.kids[1], Append(path, 1))
    IN  [node |-> [node EXCEPT !.kids = <<r1.node>>],
         drawn |-> <<RenderCall(node, path)>> \o r1.drawn]

\* Renderer::render of each variant; NullRenderer and ClearColorRenderer
\* have no children
render(node, path) ==
    CASE node.kind = "Split" -> Split_render(node, path)
      [] node.kind = "Inset" -> Inset_render(node, path)
      [] node.kind = "FixedAspectRatio" -> FixedAspectRatio_render(node, path)
      [] OTHER -> [node |-> node, drawn |-> <<RenderCall(node, path)>>]

\* The renderers handed to a composite's constructor.
Leaf == ClearColorRenderer_new(IntRect_default)

Children == {Leaf}

(***************************************************************************)
(* The render tree's operations.                                           *)
(***************************************************************************)
Call(op, node) ==
    [op |-> op, kind |-> node.kind, horizontal |-> node.horizontal,
     viewport_rect |-> node.viewport_rect, param |-> node.param]

TreeInit ==
    /\ tree = NoTree
    /\ panicked = FALSE
    /\ last_call = Call("none", NoTree)
    /\ drawn = <<>>

\* the state after call op on the root returned r (or unwound with r)
TreeAfter(r, op) ==
    /\ tree' = IF r.panic THEN Dropped ELSE r.node
    /\ panicked' = r.panic
    /\ last_call' = Call(op, r.node)
    /\ drawn' = <<>>

NewHSplit ==
    /\ tree = NoTree /\ ~panicked
    /\ \E viewport_rect \in Rects, split_point \in SplitPoints,
          left \in Children, right \in Children :
          TreeAfter(HSplitRenderer_new(viewport_rect, split_point, left, right), "new")
    /\ UNCHANGED win_vars

NewVSplit ==
    /\ tree = NoTree /\ ~panicked
    /\ \E viewport_rect \in Rects, split_point \in SplitPoints,
          top \in Children, bottom \in Children :
          TreeAfter(VSplitRenderer_new(viewport_rect, split_point, top, bottom), "new")
    /\ UNCHANGED win_vars

NewInset ==
    /\ tree = NoTree /\ ~panicked
    /\ \E viewport_rect \in Rects, inset \in Insets,
          outside_renderer \in Children, inside_renderer \in Children :
          TreeAfter(InsetRenderer_new(viewport_rect, inset, outside_renderer,
                                      inside_renderer), "new")
    /\ UNCHANGED win_vars

NewFixedAspectRatio ==
    /\ tree = NoTree /\ ~panicked
    /\ \E viewport_rect \in Rects, aspect_ratio \in AspectRatios,
          renderer \in Children :
          TreeAfter(FixedAspectRatioRenderer_new(viewport_rect, aspect_ratio, renderer),
                    "new")
    /\ UNCHANGED win_vars

SetViewport ==
    /\ tree # NoTree /\ ~panicked
    /\ \E viewport_rect \in Rects :
          TreeAfter(set_viewport(tree, viewport_rect), "set_viewport")
    /\ UNCHANGED win_vars

SetSplitPoint ==
    /\ tree.kind = "Split" /\ ~panicked
    /\ \E split_point \in SplitPoints :
          TreeAfter(set_param(tree, split_point), "set_split_point")
    /\ UNCHANGED win_vars

SetInset ==
    /\ tree.kind = "Inset" /\ ~panicked
    /\ \E inset \in Insets :
          TreeAfter(set_param(tree, InsetParam(inset)), "set_inset")
    /\ UNCHANGED win_vars

SetAspectRatio ==
    /\ tree.kind = "FixedAspectRatio" /\ ~panicked
    /\ \E aspect_ratio \in AspectRatios :
          TreeAfter(set_param(tree, aspect_ratio), "set_aspect_ratio")
    /\ UNCHANGED win_vars

\* get_r1_mut / get_r2_mut (get_left_mut, get_top_mut, get_outside_mut,
\* get_subrenderer_mut, ...): the i-th owned child, to be mutated in place
get_mut(node, i) == node.kids[i]

\* the rects a caller hands to a child it got from a getter
ChildRects == { IntRect(pos, <<MaxSize, 0>>) : pos \in Positions }

\* parent.get_*_mut().set_viewport(viewport_rect): the parent is not told
ChildSetViewport ==
    /\ tree.kind \in {"Split", "Inset", "FixedAspectRatio"} /\ ~panicked
    /\ \E i \in 1..Len(tree.kids), viewport_rect \in ChildRects :
          LET r == set_viewport(get_mut(tree, i), viewport_rect)
          IN  /\ tree' = IF r.panic THEN Dropped
                         ELSE [tree EXCEPT !.kids[i] = r.node]
              /\ panicked' = r.panic
              /\ last_call' = Call("child_set_viewport", tree)
              /\ drawn' = <<>>
    /\ UNCHANGED win_vars

\* The renderers handed to the constructor of a nested tree: leaves,
\* composites of leaves, and a composite of composites.
Subtrees ==
    LET sp == Ratio(1, RatioDen)
        d == IntRect_default
        h == HSplitRenderer_new(d, sp, Leaf, NullRenderer).node
        v == VSplitRenderer_new(d, sp, Leaf, Leaf).node
        i == InsetRenderer_new(d, 1, Leaf, Leaf).node
        f == FixedAspectRatioRenderer_new(d, AspectRatio(1, 1), Leaf).node
    IN  {Leaf, NullRenderer, h, v, i, f, InsetRenderer_new(d, 1, h, f).node}

\* the viewports a nested tree is built with
NestedRects == { IntRect(pos, <<MaxSize, MaxSize - 1>>) : pos \in Positions }

\* a tree of composites built from the inside out
NewNested ==
    /\ tree = NoTree /\ ~panicked
    /\ \E viewport_rect \in NestedRects, a \in Subtrees, b \in Subtrees,
          kind \in {"HSplit", "VSplit", "Inset", "FixedAspectRatio"} :
          TreeAfter(
              CASE kind = "HSplit" ->
                      HSplitRenderer_new(viewport_rect, Ratio(1, RatioDen), a, b)
                [] kind = "VSplit" ->
                      VSplitRenderer_new(viewport_rect, Absolute(1), a, b)
                [] kind = "Inset" -> InsetRenderer_new(viewport_rect, 1, a, b)
                [] kind = "FixedAspectRatio" ->
                      FixedAspectRatioRenderer_new(viewport_rect,
                                                   AspectRatio(1, 1), a),
              "new")
    /\ UNCHANGED win_vars

\* tree.render()
Render ==
    /\ tree \notin {NoTree, Dropped} /\ ~panicked
    /\ \E r \in {render(tree, <<>>)} :
          /\ tree' = r.node
          /\ drawn' = r.drawn
    /\ last_call' = Call("render", tree)
    /\ UNCHANGED panicked
    /\ UNCHANGED win_vars

RenderNext ==
    \/ NewNested
    \/ Render
    \/ ChildSetViewport

TreeNext ==
    \/ NewHSplit
    \/ NewVSplit
    \/ NewInset
    \/ NewFixedAspectRatio
    \/ SetViewport
    \/ SetSplitPoint
    \/ SetInset
    \/ SetAspectRatio

(***************************************************************************)
(* Render-tree claims.                                                     *)
(***************************************************************************)
\* the pixels a rect covers (none when a size component is <= 0)
Pixels(r) ==
    { <<x, y>> : x \in r.pos[1]..(r.pos[1] + r.size[1] - 1),
                 y \in r.pos[2]..(r.pos[2] + r.size[2] - 1) }

\* the last call on the root laid out a split (an inset, a fixed aspect
\* ratio) renderer: its constructor, set_viewport or its setter
SplitLaidOut ==
    /\ last_call.kind = "Split"
    /\ last_call.op \in {"new", "set_viewport", "set_split_point"}

InsetLaidOut ==
    /\ last_call.kind = "Inset"
    /\ last_call.op \in {"new", "set_viewport", "set_inset"}

FixedAspectRatioLaidOut ==
    /\ last_call.kind = "FixedAspectRatio"
    /\ last_call.op \in {"new", "set_viewport", "set_aspect_ratio"}

\* 1 for a horizontal split (the width), 2 for a vertical one (the height)
SplitAxis == IF last_call.horizontal THEN 1 ELSE 2
OtherAxis == IF last_call.horizontal THEN 2 ELSE 1

\* the two children tile the parent: child 1 is [0, sp), child 2 is
\* [sp, extent) on the split axis, both span the parent on the other axis
SplitTiles ==
    LET p == last_call.viewport_rect
        c1 == tree.kids[1].viewport_rect
        c2 == tree.kids[2].viewport_rect
        sp == c1.size[SplitAxis]
    IN  /\ Pixels(c1) \cap Pixels(c2) = {}
        /\ Pixels(c1) \cup Pixels(c2) = Pixels(p)
        /\ 0 <= sp /\ sp <= p.size[SplitAxis]
        /\ c1.pos = p.pos
        /\ c2.pos[SplitAxis] = p.pos[SplitAxis] + sp
        /\ c2.size[SplitAxis] = p.size[SplitAxis] - sp
        /\ c2.pos[OtherAxis] = p.pos[OtherAxis]
        /\ c1.size[OtherAxis] = p.size[OtherAxis]
        /\ c2.size[OtherAxis] = p.size[OtherAxis]

RatioInUnitInterval ==
    /\ last_call.param.tag = "Ratio"
    /\ 0 <= last_call.param.num /\ last_call.param.num <= last_call.param.den

\* C3: for every parent IntRect and every Ratio(r) with 0 <= r <= 1, after
\* construction, set_viewport or set_split_point of a split the call has
\* completed and the two children's viewports are disjoint and tile the parent.
C3_SplitRatioTilesEveryRect ==
    (SplitLaidOut /\ RatioInUnitInterval) => (~panicked /\ SplitTiles)

\* (C3, the part the code keeps) the same for parents whose size components
\* are both >= 0.
SplitRatioTilesNonNegativeRect ==
    (/\ SplitLaidOut /\ RatioInUnitInterval
     /\ last_call.viewport_rect.size[1] >= 0 /\ last_call.viewport_rect.size[2] >= 0)
        => (~panicked /\ SplitTiles)

\* C4 as stated: for inset k >= 0 the inside child's size is
\* (max(w-2k,0), max(h-2k,0)), each axis clamped on its own, at (x+k, y+k)
\* when non-degenerate.
C4_InsetClampedPerAxis ==
    LET p == last_call.viewport_rect
        k == last_call.param.num
        inside == tree.kids[2].viewport_rect
    IN  (InsetLaidOut /\ k >= 0) =>
            /\ ~panicked
            /\ inside.size = <<Max(p.size[1] - 2 * k, 0), Max(p.size[2] - 2 * k, 0)>>
            /\ (p.size[1] - 2 * k >= 0 /\ p.size[2] - 2 * k >= 0)
                    => inside.pos = <<p.pos[1] + k, p.pos[2] + k>>

\* C4 amended: for inset k >= 0 the inside child's size is (w-2k, h-2k) when
\* both are >= 0 and (0,0) as soon as either is negative; its position is
\* (x+k, y+k) when non-degenerate.
C4_InsetClampedTogether ==
    LET p == last_call.viewport_rect
        k == last_call.param.num
        inside == tree.kids[2].viewport_rect
        iw == p.size[1] - 2 * k
        ih == p.size[2] - 2 * k
    IN  (InsetLaidOut /\ k >= 0) =>
            /\ ~panicked
            /\ (iw >= 0 /\ ih >= 0) => (/\ inside.size = <<iw, ih>>
                                        /\ inside.pos = <<p.pos[1] + k, p.pos[2] + k>>)
            /\ (iw < 0 \/ ih < 0) => inside.size = <<0, 0>>

\* C4 witness: set_inset left one axis negative and the other positive, and
\* both sizes are 0.
C4_Witness ==
    /\ last_call.kind = "Inset" /\ last_call.op = "set_inset" /\ ~panicked
    /\ last_call.param.num > 0
    /\ last_call.viewport_rect.size[1] - 2 * last_call.param.num < 0
    /\ last_call.viewport_rect.size[2] - 2 * last_call.param.num > 0
    /\ tree.kids[2].viewport_rect.size = <<0, 0>>

\* C5: constructing a Split/Inset/FixedAspectRatio node and calling
\* set_viewport or its setter completes normally for every IntRect (zero and
\* negative sizes included) and every parameter: no call panics.
C5_NoCallPanics == ~panicked

\* C9, as stated: for Absolute(x) with x < 0 and every viewport extent the
\* call returns and the resolved split point, child 1's size on the split
\* axis, is extent + x clamped to [0, extent].
C9_NegativeAbsoluteEveryExtent ==
    LET extent == last_call.viewport_rect.size[SplitAxis]
        x == last_call.param.num
    IN  (SplitLaidOut /\ last_call.param.tag = "Absolute" /\ x < 0) =>
            /\ ~panicked
            /\ tree.kids[1].viewport_rect.size[SplitAxis]
                  = Max(0, Min(extent + x, extent))

\* the case of C9 that fails: a negative extent, and the call panicked
C9_PanicWitness ==
    /\ SplitLaidOut /\ last_call.param.tag = "Absolute" /\ last_call.param.num < 0
    /\ last_call.viewport_rect.size[SplitAxis] < 0
    /\ panicked

\* (C9, the part the code keeps) for an extent >= 0 the resolved split point
\* is clamp(extent + x, 0, extent), which lies in [0, extent].
NegativeAbsoluteFromFarEdge ==
    LET extent == last_call.viewport_rect.size[SplitAxis]
        x == last_call.param.num
        sp == tree.kids[1].viewport_rect.size[SplitAxis]
    IN  (SplitLaidOut /\ last_call.param.tag = "Absolute" /\ x < 0 /\ extent >= 0) =>
            /\ ~panicked
            /\ sp = Max(0, Min(extent + x, extent))
            /\ 0 <= sp /\ sp <= extent

\* set_split_point(Absolute(x)), x < 0, resolved strictly inside the
\* viewport, measured from the far edge
NegativeAbsoluteInside ==
    /\ last_call.kind = "Split" /\ last_call.op = "set_split_point" /\ ~panicked
    /\ last_call.param.tag = "Absolute" /\ last_call.param.num < 0
    /\ last_call.viewport_rect.size[SplitAxis] + last_call.param.num > 0
    /\ tree.kids[1].viewport_rect.size[SplitAxis]
          = last_call.viewport_rect.size[SplitAxis] + last_call.param.num

\* C10: for a parent of non-negative size and a positive aspect ratio the
\* child of a FixedAspectRatio node never exceeds the parent's width or
\* height and sits at parent.pos + (parent.size - child.size) / 2.
C10_FixedAspectRatioFitsCentered ==
    LET p == last_call.viewport_rect
        c == tree.kids[1].viewport_rect
    IN  (/\ FixedAspectRatioLaidOut
         /\ p.size[1] >= 0 /\ p.size[2] >= 0 /\ last_call.param.num > 0) =>
            /\ ~panicked
            /\ \A i \in 1..2 :
                  /\ c.size[i] <= p.size[i]
                  /\ c.pos[i] = p.pos[i] + ((p.size[i] - c.size[i]) \div 2)

\* C10 witness: set_aspect_ratio left an odd leftover on one axis.
C10_Witness ==
    LET p == last_call.viewport_rect
        c == tree.kids[1].viewport_rect
    IN  /\ last_call.kind = "FixedAspectRatio" /\ last_call.op = "set_aspect_ratio"
        /\ ~panicked /\ last_call.param.num > 0
        /\ p.size[1] > 0 /\ p.size[2] > 0
        /\ \E i \in 1..2 : (p.size[i] - c.size[i]) % 2 = 1 /\ c.size[i] > 0

\* what a composite's children hold after it has laid them out again
Relaid(node) == set_viewport(node, node.viewport_rect)

\* C16, as stated: in every state reached by the public operations, the
\* children's set_viewport through get_*_mut included, each child's viewport
\* is the rect its parent derives from the parent's own viewport_rect and
\* current parameter: laying the children out again changes nothing.
C16_ChildrenMatchParent ==
    (tree.kind \in {"Split", "Inset", "FixedAspectRatio"} /\ ~panicked) =>
        /\ ~Relaid(tree).panic
        /\ \A i \in 1..Len(tree.kids) :
              tree.kids[i].viewport_rect = Relaid(tree).node.kids[i].viewport_rect

\* the case of C16 that fails: a child was given a viewport behind its
\* parent's back
C16_Witness ==
    /\ last_call.op = "child_set_viewport" /\ ~panicked
    /\ \E i \in 1..Len(tree.kids) :
          tree.kids[i].viewport_rect # Relaid(tree).node.kids[i].viewport_rect

\* (C16, the part the code keeps) after a constructor, set_viewport or a
\* setter of the parent the children hold what the parent derives.
ChildrenMatchParentAfterParentCall ==
    (/\ tree.kind \in {"Split", "Inset", "FixedAspectRatio"} /\ ~panicked
     /\ last_call.op # "child_set_viewport") =>
        \A i \in 1..Len(tree.kids) :
            tree.kids[i].viewport_rect = Relaid(tree).node.kids[i].viewport_rect

\* the last call on the root laid out a composite and returned
LaidOut == (SplitLaidOut \/ InsetLaidOut \/ FixedAspectRatioLaidOut) /\ ~panicked

NonNegative(rect) == rect.size[1] >= 0 /\ rect.size[2] >= 0

\* C17, as stated: every rect a Split, Inset or FixedAspectRatio node derives
\* and passes to a child has both size components >= 0, for every parent rect
\* and every parameter value.
C17_ChildSizesNonNegative ==
    LaidOut => \A i \in 1..Len(tree.kids) : NonNegative(tree.kids[i].viewport_rect)

\* the case of C17 that fails with a parent of positive size: a negative
\* aspect ratio
C17_Witness ==
    /\ FixedAspectRatioLaidOut /\ ~panicked
    /\ last_call.viewport_rect.size[1] > 0 /\ last_call.viewport_rect.size[2] > 0
    /\ ~NonNegative(tree.kids[1].viewport_rect)

\* (C17, the part the code keeps) the derived sizes are >= 0 when the parent's
\* are and the aspect ratio is positive.
ChildSizesNonNegativeInside ==
    (/\ LaidOut
     /\ NonNegative(last_call.viewport_rect)
     /\ last_call.kind = "FixedAspectRatio" => last_call.param.num > 0) =>
        \A i \in 1..Len(tree.kids) : NonNegative(tree.kids[i].viewport_rect)

\* C18: after InsetRenderer construction, set_viewport or set_inset the call
\* has returned, the outside child's viewport is the full parent rect, and
\* whenever w - 2*inset < 0 or h - 2*inset < 0 the inside child's size is
\* (0, 0).
C18_InsetOutsideFullInsideCollapses ==
    LET p == last_call.viewport_rect
        k == last_call.param.num
    IN  InsetLaidOut =>
            /\ ~panicked
            /\ tree.kids[1].viewport_rect = p
            /\ (p.size[1] - 2 * k < 0 \/ p.size[2] - 2 * k < 0) =>
                  tree.kids[2].viewport_rect.size = <<0, 0>>

\* set_viewport made the height too small for the inset while the width
\* still fits
C18_Witness ==
    /\ last_call.kind = "Inset" /\ last_call.op = "set_viewport" /\ ~panicked
    /\ last_call.viewport_rect.size[1] - 2 * last_call.param.num > 0
    /\ last_call.viewport_rect.size[2] - 2 * last_call.param.num < 0
    /\ tree.kids[1].viewport_rect = last_call.viewport_rect
    /\ tree.kids[2].viewport_rect.size = <<0, 0>>

\* VSplitRenderer::new at {pos:(0,0), size:(100,100)} with Ratio(0.5)
VSplitHalves ==
    VSplitRenderer_new(IntRect(<<0, 0>>, <<100, 100>>), Ratio(1, 2), Leaf, Leaf)

\* C19: right after a composite's constructor has returned, the children hold
\* the viewports set_viewport(initial rect) would give them; and
\* VSplitRenderer::new at {pos:(0,0), size:(100,100)} with Ratio(0.5) gives
\* the top child {pos:(0,0), size:(100,50)} and the bottom child
\* {pos:(0,50), size:(100,50)}.
C19_ConstructorLaysOut ==
    /\ (last_call.op = "new" /\ ~panicked) =>
          /\ ~set_viewport(tree, last_call.viewport_rect).panic
          /\ set_viewport(tree, last_call.viewport_rect).node = tree
    /\ ~VSplitHalves.panic
    /\ VSplitHalves.node.kids[1].viewport_rect = IntRect(<<0, 0>>, <<100, 50>>)
    /\ VSplitHalves.node.kids[2].viewport_rect = IntRect(<<0, 50>>, <<100, 50>>)

\* a vertical split built with Ratio(0.5): the children are the two halves
C19_Witness ==
    /\ last_call.op = "new" /\ last_call.kind = "Split" /\ ~last_call.horizontal
    /\ ~panicked
    /\ last_call.param.tag = "Ratio" /\ 2 * last_call.param.num = last_call.param.den
    /\ last_call.viewport_rect.size[2] = 2
    /\ tree.kids[1].viewport_rect.size[2] = 1
    /\ tree.kids[2].viewport_rect.pos[2] = last_call.viewport_rect.pos[2] + 1
    /\ tree.kids[2].viewport_rect.size[2] = 1

\* the parameter values a node's setter takes
Params(node) ==
    CASE node.kind = "Split" -> SplitPoints
      [] node.kind = "Inset" -> { InsetParam(k) : k \in Insets }
      [] node.kind = "FixedAspectRatio" -> AspectRatios

\* a node of the same variant built anew, with fresh children, from a
\* viewport and a parameter
Fresh(node, viewport_rect, param) ==
    CASE node.kind = "Split" ->
            SplitRenderer_new(viewport_rect, node.horizontal, param, Leaf, Leaf)
      [] node.kind = "Inset" ->
            InsetRenderer_new(viewport_rect, param.num, Leaf, Leaf)
      [] node.kind = "FixedAspectRatio" ->
            FixedAspectRatioRenderer_new(viewport_rect, param, Leaf)

\* the viewports of a node's children
ChildViewports(node) == [i \in 1..Len(node.kids) |-> node.kids[i].viewport_rect]

\* what is left after a call: nothing when it panicked, else the node's
\* viewport, parameter and children's viewports
Outcome(r) ==
    IF r.panic
    THEN <<"panic">>
    ELSE <<r.node.viewport_rect, r.node.param, ChildViewports(r.node)>>

\* two calls in a row; the second is not made when the first panics
ViewportThenParam(node, viewport_rect, param) ==
    LET a == set_viewport(node, viewport_rect)
    IN  IF a.panic THEN a ELSE set_param(a.node, param)

ParamThenViewport(node, viewport_rect, param) ==
    LET a == set_param(node, param)
    IN  IF a.panic THEN a ELSE set_viewport(a.node, viewport_rect)

ViewportTwice(node, viewport_rect) ==
    LET a == set_viewport(node, viewport_rect)
    IN  IF a.panic THEN a ELSE set_viewport(a.node, viewport_rect)

\* the children hold what a node built anew from the node's viewport and
\* parameter gives its children; calling set_viewport again with the viewport
\* in place changes nothing; and, from a node just built on the default
\* rect, set_viewport(r) then the setter with p leaves what the setter with p
\* then set_viewport(r) leaves, for every rect r and parameter p
LayoutFromLastValues ==
    (tree.kind \in {"Split", "Inset", "FixedAspectRatio"} /\ ~panicked) =>
        /\ ChildViewports(tree) =
              ChildViewports(Fresh(tree, tree.viewport_rect, tree.param).node)
        /\ Outcome(set_viewport(tree, tree.viewport_rect)) = Outcome(Returned(tree))
        /\ (last_call.op = "new" /\ tree.viewport_rect = IntRect_default) =>
              \A r \in Rects, p \in Params(tree) :
                  Outcome(ViewportThenParam(tree, r, p))
                      = Outcome(ParamThenViewport(tree, r, p))

\* set_viewport keeps the parameter and a setter keeps the viewport, so the
\* node's viewport and parameter are the last ones it was given
KeepsOtherValue ==
    (tree.kind \in {"Split", "Inset", "FixedAspectRatio"} /\ ~panicked') =>
        /\ last_call'.op = "set_viewport" => tree'.param = tree.param
        /\ last_call'.op \in {"set_split_point", "set_inset", "set_aspect_ratio"} =>
              tree'.viewport_rect = tree.viewport_rect

\* C31: after any sequence of constructor, set_viewport and setter calls on
\* a Split, Inset or FixedAspectRatio node the children's viewports depend
\* only on the last viewport and the last parameter the node was given:
\* they are those of a node built anew from the two.  So set_viewport(r) is
\* idempotent and commutes with set_split_point / set_inset /
\* set_aspect_ratio.
C31_LayoutIsHistoryIndependent ==
    [](LayoutFromLastValues) /\ [][KeepsOtherValue]_vars

\* after a constructor and a setter call, a split whose children both have
\* room, and for which another viewport and another split point give another
\* layout, whichever is set first
C31_Witness ==
    /\ last_call.kind = "Split" /\ last_call.op = "set_split_point" /\ ~panicked
    /\ tree.kids[1].viewport_rect.size[SplitAxis] > 0
    /\ tree.kids[2].viewport_rect.size[SplitAxis] > 0
    /\ \E r \in Rects, p \in SplitPoints :
          /\ ~ViewportThenParam(tree, r, p).panic
          /\ ChildViewports(ViewportThenParam(tree, r, p).node) # ChildViewports(tree)
          /\ Outcome(ViewportThenParam(tree, r, p))
                = Outcome(ParamThenViewport(tree, r, p))

\* C33: for every viewport extent >= 0 on the split axis and every
\* Absolute(x), x > extent and x < -extent included, the call returns, the
\* resolved split point (child 1's size on the split axis) lies in
\* [0, extent], child 2 begins where child 1 ends and the two sizes add up
\* to the extent; and for x >= extent child 1 has the whole parent rect and
\* child 2 is empty at the far edge.
C33_AbsoluteSplitClampedAndTiles ==
    LET p == last_call.viewport_rect
        extent == p.size[SplitAxis]
        x == last_call.param.num
    IN  (SplitLaidOut /\ last_call.param.tag = "Absolute" /\ extent >= 0) =>
            /\ ~panicked
            /\ LET c1 == tree.kids[1].viewport_rect
                   c2 == tree.kids[2].viewport_rect
                   sp == c1.size[SplitAxis]
               IN  /\ 0 <= sp /\ sp <= extent
                   /\ c1.pos = p.pos
                   /\ c2.pos[SplitAxis] = p.pos[SplitAxis] + sp
                   /\ c2.pos[OtherAxis] = p.pos[OtherAxis]
                   /\ c1.size[SplitAxis] + c2.size[SplitAxis] = extent
                   /\ c1.size[OtherAxis] = p.size[OtherAxis]
                   /\ c2.size[OtherAxis] = p.size[OtherAxis]
                   /\ x >= extent =>
                         /\ c1 = p
                         /\ c2.size[SplitAxis] = 0
                         /\ c2.pos[SplitAxis] = p.pos[SplitAxis] + extent

\* set_split_point(Absolute(x)) with x beyond a positive extent
C33_Witness ==
    /\ last_call.kind = "Split" /\ last_call.op = "set_split_point" /\ ~panicked
    /\ last_call.param.tag = "Absolute"
    /\ last_call.viewport_rect.size[SplitAxis] > 0
    /\ last_call.param.num > last_call.viewport_rect.size[SplitAxis]
    /\ tree.kids[1].viewport_rect = last_call.viewport_rect
    /\ tree.kids[2].viewport_rect.size[SplitAxis] = 0

\* Absolute(x) with x < -extent: child 1 is empty and child 2 has the
\* whole extent
C33_BelowWitness ==
    /\ SplitLaidOut /\ ~panicked
    /\ last_call.param.tag = "Absolute"
    /\ last_call.viewport_rect.size[SplitAxis] > 0
    /\ last_call.param.num < -last_call.viewport_rect.size[SplitAxis]
    /\ tree.kids[1].viewport_rect.size[SplitAxis] = 0
    /\ tree.kids[2].viewport_rect.size[SplitAxis]
          = last_call.viewport_rect.size[SplitAxis]

\* rect c lies inside rect p on both axes
Inside(c, p) ==
    \A i \in 1..2 :
        /\ c.pos[i] >= p.pos[i]
        /\ c.pos[i] + c.size[i] <= p.pos[i] + p.size[i]

\* the last call laid out a composite on a parent rect of non-negative
\* size, with an inset >= 0 or a positive aspect ratio
LaidOutInRange ==
    /\ LaidOut
    /\ NonNegative(last_call.viewport_rect)
    /\ last_call.kind = "Inset" => last_call.param.num >= 0
    /\ last_call.kind = "FixedAspectRatio" => last_call.param.num > 0

\* C32, as stated: for every parent rect of non-negative size, every
\* SplitPoint, every inset k >= 0 and every positive aspect ratio, each
\* child viewport a Split, Inset or FixedAspectRatio node derives lies inside
\* the parent rect, the degenerate inset case included.
C32_ChildrenInsideParent ==
    LaidOutInRange =>
        \A i \in 1..Len(tree.kids) :
            Inside(tree.kids[i].viewport_rect, last_call.viewport_rect)

\* the case of C32 that fails: an inset larger than the parent's width or
\* height puts the empty inside rect beyond the parent's far edge
C32_Witness ==
    /\ InsetLaidOut /\ LaidOutInRange
    /\ tree.kids[2].viewport_rect.size = <<0, 0>>
    /\ \E i \in 1..2 :
          /\ last_call.param.num > last_call.viewport_rect.size[i]
          /\ tree.kids[2].viewport_rect.pos[i]
                > last_call.viewport_rect.pos[i] + last_call.viewport_rect.size[i]

\* (C32, the part the code keeps) the children lie inside the parent unless
\* the inset is larger than the parent's width or height
ChildrenInsideParentUnlessInsetTooLarge ==
    (/\ LaidOutInRange
     /\ last_call.kind = "Inset" =>
            /\ last_call.param.num <= last_call.viewport_rect.size[1]
            /\ last_call.param.num <= last_call.viewport_rect.size[2]) =>
        \A i \in 1..Len(tree.kids) :
            Inside(tree.kids[i].viewport_rect, last_call.viewport_rect)

\* the paths of the nodes of a tree, and the node at a path
RECURSIVE Paths(_)
Paths(node) ==
    {<<>>} \cup UNION { { <<i>> \o q : q \in Paths(node.kids[i]) } :
                          i \in 1..Len(node.kids) }

RECURSIVE NodeAt(_, _)
NodeAt(node, path) ==
    IF path = <<>> THEN node ELSE NodeAt(node.kids[Head(path)], Tail(path))

IsPrefix(p, q) == Len(p) <= Len(q) /\ SubSeq(q, 1, Len(p)) = p

\* the places in drawn of the render() calls of the node at path p, and of
\* the nodes of its subtree
DrawnAt(p) == { k \in 1..Len(drawn) : drawn[k].path = p }
DrawnUnder(p) == { k \in 1..Len(drawn) : IsPrefix(p, drawn[k].path) }

\* C24: in a render() of the root, every node of the tree, at any depth, is
\* rendered exactly once, after its parent's render() began; and in a Split
\* (HSplit/VSplit) or an Inset every render() call of child 1's subtree (r1,
\* the outside child) comes before every one of child 2's subtree (r2, the
\* inside child).
C24_ChildrenRenderedOnceInOrder ==
    last_call.op = "render" =>
        /\ \A k \in 1..Len(drawn) : drawn[k].path \in Paths(tree)
        /\ \A p \in Paths(tree) :
              /\ Cardinality(DrawnAt(p)) = 1
              /\ \A k \in DrawnUnder(p), k0 \in DrawnAt(p) : k0 <= k
              /\ NodeAt(tree, p).kind \in {"Split", "Inset"} =>
                    \A k1 \in DrawnUnder(Append(p, 1)),
                       k2 \in DrawnUnder(Append(p, 2)) : k1 < k2

\* render() of an Inset whose outside child is a split and whose inside
\* child is an inset of a split and a fixed-aspect-ratio renderer
C24_Witness ==
    /\ last_call.op = "render"
    /\ tree.kind = "Inset"
    /\ tree.kids[1].kind = "Split"
    /\ tree.kids[2].kind = "Inset"
    /\ [k \in 1..Len(drawn) |-> drawn[k].path] =
          << <<>>, <<1>>, <<1, 1>>, <<1, 2>>,
             <<2>>, <<2, 1>>, <<2, 1, 1>>, <<2, 1, 2>>, <<2, 2>>, <<2, 2, 1>> >>

\* the tree has a child that is not where the parent's layout puts it
OutOfStep ==
    /\ tree.kind \in {"Split", "Inset", "FixedAspectRatio"}
    /\ tree # reset_subrenderer_viewports(tree).node

\* C25: a render() of the root leaves the whole tree as it was: the root's
\* viewport and parameter and, at every depth, each descendant's.
C25_RenderLeavesTreeUnchanged ==
    [][last_call'.op = "render" => tree' = tree]_vars

\* render() was called on a tree with a child that a caller had moved away
\* from the parent's layout, and the child is still there
C25_Witness ==
    /\ last_call.op = "render"
    /\ OutOfStep
    /\ Len(drawn) >= 3

(***************************************************************************)
(* The window: WinData, the controller handed to the handler, the typed    *)
(* events.                                                                 *)
(***************************************************************************)
None == [some |-> FALSE, t |-> 0]
Some(t) == [some |-> TRUE, t |-> t]

\* std::time::Duration::from_secs, in the model's unit of time
from_secs(secs) == secs

ModifierState(shift, ctrl, alt, super_) ==
    [shift |-> shift, ctrl |-> ctrl, alt |-> alt, super_ |-> super_]

\* glutin's ModifiersState, as the native event carries it
ModifiersState(shift, ctrl, alt, logo) ==
    [shift |-> shift, ctrl |-> ctrl, alt |-> alt, logo |-> logo]

NoModifiers == ModifierState(FALSE, FALSE, FALSE, FALSE)

\* A typed Event: its variant and payload (a, b: numbers; modifiers).
Event(type, a, b, modifiers) ==
    [type |-> type, a |-> a, b |-> b, modifiers |-> modifiers]

TickEvent(ticks_passed, time) == Event("Tick", ticks_passed, time, NoModifiers)

\* Window::new: the WinData it builds at time now for a window of `size`
Window_new(now, size) ==
    LET tick_duration == from_secs(1)
    IN  [windowed_context |-> [size |-> size],
         tick_duration |-> tick_duration,
         next_tick |-> now + tick_duration,
         modifiers |-> ModifierState(FALSE, FALSE, FALSE, FALSE)]

\* a controller that starts with the exit flag set
WindowController_new_exiting(wd) ==
    [status |-> [exit |-> TRUE, wait_until |-> None], windata |-> wd]

WindowController_new(wd) ==
    [status |-> [exit |-> FALSE, wait_until |-> None], windata |-> wd]

\* set_title(&self, ..): hands the title to the native window; the
\* controller and its WinData stay as they are
set_title(wc, title) == wc

\* a close() that also forgets the modifiers
close_clears_modifiers(wc) ==
    [wc EXCEPT !.status.exit = TRUE,
               !.windata.modifiers = ModifierState(FALSE, FALSE, FALSE, FALSE)]

close(wc) == [wc EXCEPT !.status.exit = TRUE]

\* request_redraw(&self): asks the native window for a RedrawRequested event
request_redraw(wc) == wc

\* a setter that leaves next_tick alone
set_tick_duration_keeps_next_tick(wc, duration, now) ==
    [wc EXCEPT !.windata.tick_duration = duration]

\* `now` is the Instant::now() the setter reads
set_tick_duration(wc, duration, now) ==
    [wc EXCEPT !.windata.tick_duration = duration,
               !.windata.next_tick = now + duration]

get_modifiers(wc) == wc.windata.modifiers

(***************************************************************************)
(* A dispatch in progress: the controller, the clock, and the record of    *)
(* what has happened so far (events delivered, effects in order, what the  *)
(* handler saw, called and returned, the result of swap_buffers).  outcome *)
(* is Running until the dispatch returns an error (Err) or never returns   *)
(* (Hang).                                                                 *)
(***************************************************************************)
\* the arguments of the handler's set_tick_duration call, and the
\* Instant::now() the setter read
NoSetterCall == [duration |-> 0, now |-> 0]

Begin(wd, now) ==
    [wc |-> WindowController_new(wd), now |-> now, delivered |-> <<>>,
     trace |-> <<>>, saw |-> <<>>, calls |-> {}, returned |-> <<>>,
     setter |-> NoSetterCall, swap |-> "None", outcome |-> "Running"]

\* What a handler invocation does: the calls of h.window (set_title,
\* request_redraw), h.close, h.set_tick (with h.duration, read h.delay after
\* the dispatcher's clock value), then returns h.ret.
NoTick == [set |-> FALSE, duration |-> 0, delay |-> 0]

\* event_handler(&mut wc, event): one call of the user's handler
event_handler(cx, event, h) ==
    LET wct == IF "set_title" \in h.window THEN set_title(cx.wc, "title") ELSE cx.wc
        wcr == IF "request_redraw" \in h.window THEN request_redraw(wct) ELSE wct
        wc1 == IF h.close THEN close(wcr) ELSE wcr
        now2 == cx.now + h.tick.delay
        wc2 == IF h.tick.set
               THEN set_tick_duration(wc1, h.tick.duration, now2)
               ELSE wc1
    IN  [cx EXCEPT
            !.wc = wc2,
            !.now = now2,
            !.delivered = Append(cx.delivered, event),
            !.trace = Append(cx.trace, "event_handler"),
            !.saw = Append(cx.saw,
                       [exit |-> cx.wc.status.exit,
                        modifiers |-> get_modifiers(cx.wc),
                        tick_duration |-> cx.wc.windata.tick_duration,
                        next_tick |-> cx.wc.windata.next_tick,
                        size |-> cx.wc.windata.windowed_context.size]),
            !.calls = h.window \cup (IF h.close THEN {"close"} ELSE {})
                        \cup (IF h.tick.set THEN {"set_tick_duration"} ELSE {}),
            !.setter = IF h.tick.set
                       THEN [duration |-> h.tick.duration, now |-> now2]
                       ELSE cx.setter,
            !.returned = Append(cx.returned, h.ret),
            !.outcome = IF h.ret = "Err" THEN "Err" ELSE "Running"]

\* a catch-up that counts the whole intervals between next_tick and now
catch_up_whole_intervals(now, next_tick, tick_duration, ticks_passed) ==
    LET n == IF now >= next_tick THEN (now - next_tick) \div tick_duration ELSE 0
    IN  [next_tick |-> next_tick + n * tick_duration,
         ticks_passed |-> ticks_passed + n]

\* a catch-up that reports one tick however many intervals it advances over
catch_up_counts_one(now, next_tick, tick_duration, ticks_passed) ==
    IF now >= next_tick
    THEN [next_tick |-> next_tick
                          + ((now - next_tick) \div tick_duration + 1) * tick_duration,
          ticks_passed |-> ticks_passed + 1]
    ELSE [next_tick |-> next_tick, ticks_passed |-> ticks_passed]

\* a catch-up that advances next_tick by one interval at most
catch_up_one_interval(now, next_tick, tick_duration, ticks_passed) ==
    IF now >= next_tick
    THEN [next_tick |-> next_tick + tick_duration, ticks_passed |-> ticks_passed + 1]
    ELSE [next_tick |-> next_tick, ticks_passed |-> ticks_passed]

\* the `while now >= next_tick` loop of the ResumeTimeReached arm
RECURSIVE catch_up(_, _, _, _)
catch_up(now, next_tick, tick_duration, ticks_passed) ==
    IF now >= next_tick
    THEN catch_up(now, next_tick + tick_duration, tick_duration, ticks_passed + 1)
    ELSE [next_tick |-> next_tick, ticks_passed |-> ticks_passed]

(***************************************************************************)
(* Native events (glutin::event::Event<()>), by kind; a, b and modifiers   *)
(* are the payload the dispatcher reads.                                   *)
(***************************************************************************)
NativeEvent(kind, a, b, modifiers) ==
    [kind |-> kind, a |-> a, b |-> b, modifiers |-> modifiers]

Plain(kind) == NativeEvent(kind, 0, 0, ModifiersState(FALSE, FALSE, FALSE, FALSE))

\* window and loop events whose arm only hands the typed event of the same
\* name to the handler
PassThroughKinds ==
    {"CursorEntered", "CursorLeft", "CursorMoved", "MouseWheel", "Focused",
     "Moved", "DroppedFile", "HoveredFile", "HoveredFileCancelled",
     "ReceivedCharacter", "Suspended", "Resumed"}

\* events that fall into a `_ => ()` arm
UnlistedKinds == {"UserEvent", "DeviceEvent", "WindowDestroyed"}

\* a keyboard arm that calls the handler for a key without a virtual key code
KeyboardInput_arm_without_key(cx0, event, h) ==
    event_handler(cx0,
        Event(IF event.b = 1 THEN "KeyPressed" ELSE "KeyReleased",
              event.a, 0, NoModifiers), h)

\* the arm `WinEv::KeyboardInput`; a: the virtual key code, 0 for None;
\* b: 1 Pressed, 0 Released
KeyboardInput_arm(cx0, event, h) ==
    IF event.a # 0
    THEN event_handler(cx0,
             Event(IF event.b = 1 THEN "KeyPressed" ELSE "KeyReleased",
                   event.a, 0, NoModifiers), h)
    ELSE cx0

\* a redraw arm that swaps whatever the handler returned
RedrawRequested_arm_swap_always(cx0, h, swap_ok) ==
    LET cx1 == event_handler(cx0, Event("RedrawRequested", 0, 0, NoModifiers), h)
    IN  [cx1 EXCEPT !.trace = Append(cx1.trace, "swap_buffers"),
                    !.swap = IF swap_ok THEN "Ok" ELSE "Err",
                    !.outcome = IF swap_ok /\ cx1.outcome # "Err"
                                THEN "Running" ELSE "Err"]

\* the arm `Ev::RedrawRequested`; swap_ok: swap_buffers() returns Ok
RedrawRequested_arm(cx0, h, swap_ok) ==
    LET cx1 == event_handler(cx0, Event("RedrawRequested", 0, 0, NoModifiers), h)
    IN  IF cx1.outcome = "Err"
        THEN cx1
        ELSE [cx1 EXCEPT !.trace = Append(cx1.trace, "swap_buffers"),
                         !.swap = IF swap_ok THEN "Ok" ELSE "Err",
                         !.outcome = IF swap_ok THEN "Running" ELSE "Err"]

\* a resize arm that resizes the context after the handler has returned
Resized_arm_resizes_after(cx0, event, h) ==
    LET cx1 == event_handler(cx0, Event("Resized", event.a, event.b, NoModifiers), h)
    IN  IF cx1.outcome = "Err"
        THEN cx1
        ELSE [cx1 EXCEPT
                 !.wc.windata.windowed_context.size = <<event.a, event.b>>,
                 !.trace = Append(cx1.trace, "resize")]

\* the arm `WinEv::Resized`; a, b: the physical size
Resized_arm(cx0, event, h) ==
    LET cx1 == [cx0 EXCEPT
                   !.wc.windata.windowed_context.size = <<event.a, event.b>>,
                   !.trace = Append(cx0.trace, "resize")]
    IN  event_handler(cx1, Event("Resized", event.a, event.b, NoModifiers), h)

\* a modifiers arm that stores the new state after the handler has returned
ModifiersChanged_arm_stores_after(cx0, event, h) ==
    LET modifiers == ModifierState(event.modifiers.shift,
                                   event.modifiers.ctrl,
                                   event.modifiers.alt,
                                   event.modifiers.logo)
        cx1 == event_handler(cx0, Event("ModifiersChanged", 0, 0, modifiers), h)
    IN  IF cx1.outcome = "Err"
        THEN cx1
        ELSE [cx1 EXCEPT !.wc.windata.modifiers = modifiers]

\* the arm `WinEv::ModifiersChanged`
ModifiersChanged_arm(cx0, event, h) ==
    LET modifiers == ModifierState(event.modifiers.shift,
                                   event.modifiers.ctrl,
                                   event.modifiers.alt,
                                   event.modifiers.logo)
    IN  event_handler([cx0 EXCEPT !.wc.windata.modifiers = modifiers],
                      Event("ModifiersChanged", 0, 0, modifiers), h)

\* a start arm that keeps the next_tick of Window::new
Init_arm_keeps_next_tick(cx0, now, h) ==
    LET next_tick == cx0.wc.windata.next_tick
        cx1 == [cx0 EXCEPT !.now = now,
                           !.wc.status.wait_until = Some(next_tick)]
    IN  event_handler(cx1, Event("EventLoopStarted", 0, 0, NoModifiers), h)

\* the arm `StartCause::Init`
Init_arm(cx0, now, h) ==
    LET next_tick == now + cx0.wc.windata.tick_duration
        cx1 == [cx0 EXCEPT !.now = now,
                           !.wc.windata.next_tick = next_tick,
                           !.wc.status.wait_until = Some(next_tick)]
    IN  event_handler(cx1, Event("EventLoopStarted", 0, 0, NoModifiers), h)

\* a tick arm that delivers a Tick even when no interval has elapsed
ResumeTimeReached_arm_always_ticks(cx0, now, h) ==
    LET wd == cx0.wc.windata
    IN  IF wd.tick_duration = 0 /\ now >= wd.next_tick
        THEN [cx0 EXCEPT !.now = now, !.outcome = "Hang"]
        ELSE LET c == catch_up(now, wd.next_tick, wd.tick_duration, 0)
                 cx1 == [cx0 EXCEPT !.now = now,
                                    !.wc.windata.next_tick = c.next_tick]
                 last_tick == c.next_tick - wd.tick_duration
                 cx2 == event_handler(cx1, TickEvent(c.ticks_passed, last_tick), h)
             IN  IF cx2.outcome = "Err"
                 THEN cx2
                 ELSE [cx2 EXCEPT !.wc.status.wait_until =
                                        Some(cx2.wc.windata.next_tick)]

\* the arm `StartCause::ResumeTimeReached`; with tick_duration = 0 and
\* now >= next_tick the loop never ends (ticks_passed wraps, or overflows
\* and panics in a build with overflow checks): the dispatch returns nothing
ResumeTimeReached_arm(cx0, now, h) ==
    LET wd == cx0.wc.windata
    IN  IF wd.tick_duration = 0 /\ now >= wd.next_tick
        THEN [cx0 EXCEPT !.now = now, !.outcome = "Hang"]
        ELSE LET c == catch_up(now, wd.next_tick, wd.tick_duration, 0)
                 cx1 == [cx0 EXCEPT !.now = now,
                                    !.wc.windata.next_tick = c.next_tick]
                 last_tick == c.next_tick - wd.tick_duration
                 cx2 == IF c.ticks_passed > 0
                        THEN event_handler(cx1, TickEvent(c.ticks_passed, last_tick), h)
                        ELSE cx1
             IN  IF cx2.outcome = "Err"
                 THEN cx2
                 ELSE [cx2 EXCEPT !.wc.status.wait_until =
                                        Some(cx2.wc.windata.next_tick)]

\* process_event: the dispatch of one native event.  clock0 is the clock
\* before the call, now the Instant::now() the Init and ResumeTimeReached
\* arms read.  The result is the finished dispatch: outcome Running means
\* Ok(wc.status).
process_event(wd, event, clock0, now, h, swap_ok) ==
    LET cx0 == [Begin(wd, clock0) EXCEPT !.wc.status.wait_until = Some(wd.next_tick)]
        k == event.kind
    IN  CASE k = "LoopDestroyed" -> cx0
          [] k = "Init" -> Init_arm(cx0, now, h)
          [] k = "ResumeTimeReached" -> ResumeTimeReached_arm(cx0, now, h)
          [] k = "Resized" -> Resized_arm(cx0, event, h)
          [] k = "CloseRequested" ->
                event_handler([cx0 EXCEPT !.wc.status.exit = TRUE],
                              Event("CloseRequested", 0, 0, NoModifiers), h)
          [] k = "KeyboardInput" -> KeyboardInput_arm(cx0, event, h)
          [] k = "MouseInput" ->
                event_handler(cx0,
                    Event(IF event.b = 1 THEN "MouseButtonPressed"
                                         ELSE "MouseButtonReleased",
                          event.a, 0, NoModifiers), h)
          [] k = "ModifiersChanged" -> ModifiersChanged_arm(cx0, event, h)
          [] k = "RedrawRequested" -> RedrawRequested_arm(cx0, h, swap_ok)
          [] k \in PassThroughKinds ->
                event_handler(cx0, Event(k, event.a, event.b, NoModifiers), h)
          [] OTHER -> cx0

(***************************************************************************)
(* Window::run: the closure the event loop calls for each native event.    *)
(***************************************************************************)
Poll == [kind |-> "Poll", t |-> 0]
Exit == [kind |-> "Exit", t |-> 0]
WaitUntil(t) == [kind |-> "WaitUntil", t |-> t]

\* a closure that ignores the error of a dispatch
run_closure_ignores_err(cf, done) ==
    IF done.outcome # "Err" /\ done.wc.status.exit
    THEN Exit
    ELSE IF done.outcome # "Err" /\ done.wc.status.wait_until.some
         THEN WaitUntil(done.wc.status.wait_until.t)
         ELSE cf

\* a closure that never takes the deadline of a status
run_closure_keeps_deadline(cf, done) ==
    IF done.outcome = "Err" \/ done.wc.status.exit THEN Exit ELSE cf

\* what the closure leaves in *control_flow, given what it found there
run_closure(cf, done) ==
    IF done.outcome = "Err"
    THEN Exit
    ELSE IF done.wc.status.exit
         THEN Exit
         ELSE IF done.wc.status.wait_until.some
              THEN WaitUntil(done.wc.status.wait_until.t)
              ELSE cf

(***************************************************************************)
(* The run loop.  The event loop (glutin) calls the closure once per       *)
(* native event, in iterations: NewEvents(cause), the queued window and    *)
(* device events, MainEventsCleared, the RedrawRequested events,           *)
(* RedrawEventsCleared; it looks at the control flow only then.  On Exit   *)
(* it sends LoopDestroyed and stops; Exit is sticky: a closure called      *)
(* after Exit was set is handed a control flow that is Exit again, and     *)
(* what it writes there is dropped.                                        *)
(*                                                                         *)
(* disp records the dispatch that has just finished (with the WinData it   *)
(* started from) and is NoDispatch while the event loop is between calls.  *)
(* exit_flagged records that a dispatch has returned a status with exit    *)
(* set.                                                                    *)
(***************************************************************************)
InitialSize == <<800, 600>>

NoNativeModifiers == ModifiersState(FALSE, FALSE, FALSE, FALSE)

\* The inputs of a run: how far the clock goes, what the handler may pass
\* to set_tick_duration and how long after the dispatcher's clock value it
\* reads the clock, and the payloads of the native events.
EventRun ==
    [max_time |-> MaxTime,
     durations |-> 0..MaxDuration,
     delays |-> {0},
     window_calls |-> {},
     account |-> FALSE,
     pass_through |-> PassThroughKinds,
     unlisted |-> UnlistedKinds,
     sizes |-> {<<800, 600>>, <<640, 480>>},
     modifiers |-> {NoNativeModifiers, ModifiersState(TRUE, FALSE, FALSE, TRUE)}]

CallRun ==
    [max_time |-> MaxTime,
     durations |-> 0..MaxDuration,
     delays |-> {0},
     window_calls |-> {},
     account |-> FALSE,
     pass_through |-> {"Focused"},
     unlisted |-> {"UserEvent"},
     sizes |-> {<<640, 480>>},
     modifiers |-> {ModifiersState(TRUE, FALSE, FALSE, TRUE)}]

\* a run in which the handler also calls the controller's window methods
MethodRun ==
    [max_time |-> MaxTime,
     durations |-> 0..MaxDuration,
     delays |-> {0},
     window_calls |-> {"set_title", "request_redraw"},
     account |-> FALSE,
     pass_through |-> {"Focused"},
     unlisted |-> {"UserEvent"},
     sizes |-> {<<640, 480>>},
     modifiers |-> {ModifiersState(TRUE, FALSE, FALSE, TRUE)}]

TickRun ==
    [max_time |-> MaxTickTime,
     durations |-> 0..MaxTickDuration,
     delays |-> 0..MaxHandlerDelay,
     window_calls |-> {},
     account |-> FALSE,
     pass_through |-> {"Focused"},
     unlisted |-> {"UserEvent"},
     sizes |-> {<<640, 480>>},
     modifiers |-> {ModifiersState(TRUE, FALSE, FALSE, TRUE)}]

\* a run over the longer time that keeps the tick account
AccountRun ==
    [TickRun EXCEPT !.account = TRUE, !.delays = {0}, !.max_time = MaxAccountTime]

\* What a handler invocation may do in a run with inputs b.
Handlers(b) ==
    [window : SUBSET b.window_calls,
     close : BOOLEAN,
     tick : {NoTick} \cup [set : {TRUE}, duration : b.durations, delay : b.delays],
     ret : {"Ok", "Err"}]

\* for the dispatches that never reach the handler
Unused == [window |-> {}, close |-> FALSE, tick |-> NoTick, ret |-> "Ok"]

\* the record of a finished dispatch
Dispatched(event, now, pre, after_exit, after_close, done, exiting, written) ==
    [event |-> event,
     now |-> now,
     pre |-> pre,
     after_exit |-> after_exit,
     after_close |-> after_close,
     returned |-> done.returned,
     swap |-> done.swap,
     delivered |-> done.delivered,
     trace |-> done.trace,
     saw |-> done.saw,
     calls |-> done.calls,
     setter |-> done.setter,
     outcome |-> IF done.outcome = "Running" THEN "Ok" ELSE done.outcome,
     status |-> done.wc.status,
     exiting |-> exiting,
     written |-> written]

NoDispatch ==
    [event |-> Plain("None"), now |-> 0, pre |-> Window_new(0, InitialSize),
     after_exit |-> FALSE, after_close |-> FALSE, returned |-> <<>>,
     swap |-> "None",
     delivered |-> <<>>, trace |-> <<>>, saw |-> <<>>, calls |-> {},
     setter |-> NoSetterCall,
     outcome |-> "None", status |-> [exit |-> FALSE, wait_until |-> None],
     exiting |-> FALSE, written |-> Poll]

\* The tick account, kept in the runs that ask for it (account).  The Start
\* (Init) dispatch opens it with the next_tick it left; each later dispatch adds the ticks_passed of the Tick event it
\* delivered and notes a set_tick_duration call of its handler.  The account
\* is closed (AccountClosed) once the tick duration has changed.
NotTicking ==
    [started |-> FALSE, next_tick |-> 0, ticks_passed |-> 0,
     setter_called |-> FALSE, duration_changed |-> FALSE]

AccountClosed ==
    [started |-> TRUE, next_tick |-> 0, ticks_passed |-> 0,
     setter_called |-> TRUE, duration_changed |-> TRUE]

RECURSIVE TicksDelivered(_)
TicksDelivered(delivered) ==
    IF delivered = <<>>
    THEN 0
    ELSE (IF Head(delivered).type = "Tick" THEN Head(delivered).a ELSE 0)
            + TicksDelivered(Tail(delivered))

TickAccount(account, event, pre, done) ==
    IF event.kind = "Init"
    THEN [started |-> TRUE, next_tick |-> done.wc.windata.next_tick,
          ticks_passed |-> 0, setter_called |-> FALSE, duration_changed |-> FALSE]
    ELSE IF ~account.started
         THEN account
         ELSE IF account.duration_changed
                    \/ done.wc.windata.tick_duration # pre.tick_duration
              THEN AccountClosed
              ELSE [account EXCEPT
                       !.ticks_passed = @ + TicksDelivered(done.delivered),
                       !.setter_called = @ \/ "set_tick_duration" \in done.calls]

WinInit ==
    /\ clock = 0
    /\ windata = Window_new(0, InitialSize)
    /\ control_flow = Poll
    /\ phase = "NotStarted"
    /\ exit_flagged = FALSE
    /\ closed = FALSE
    /\ ticked = NotTicking
    /\ disp = NoDispatch

\* process_event called in any state of the controller: any tick_duration
\* and next_tick the setter can leave, any clock value, any control flow and
\* any place of the event loop in its iteration
CallInit ==
    /\ clock \in 0..MaxTime
    /\ \E tick_duration \in 0..MaxDuration, next_tick \in 0..(MaxTime + MaxDuration) :
          windata = [Window_new(0, InitialSize) EXCEPT
                        !.tick_duration = from_secs(tick_duration),
                        !.next_tick = next_tick]
    /\ control_flow \in {Poll} \cup { WaitUntil(t) : t \in 0..MaxTime }
    /\ phase \in {"NotStarted", "Events", "Redraw", "Idle"}
    /\ exit_flagged = FALSE
    /\ closed = FALSE
    /\ ticked = NotTicking
    /\ disp = NoDispatch

\* an event loop that takes whatever the closure wrote
EventLoop_control_flow_takes_write(cf, written) == written

\* The control flow the event loop goes on with after a call of the
\* closure that found cf and left `written` in *control_flow: Exit is sticky
\* in the event loop, any other value is taken as written.
EventLoop_control_flow(cf, written) == IF cf = Exit THEN Exit ELSE written

\* One call of the closure: process_event, then the match on its result.
Dispatch(b, event, now, h, swap_ok, next_phase) ==
    /\ disp = NoDispatch
    /\ \E done \in {process_event(windata, event, clock, now, h, swap_ok)} :
        /\ done.now <= b.max_time
        /\ clock' = done.now
        /\ disp' = Dispatched(event, now, windata, exit_flagged, closed, done,
                              control_flow = Exit, run_closure(control_flow, done))
        /\ closed' = (closed \/ (done.outcome = "Running" /\ "close" \in done.calls))
        /\ ticked' = IF b.account /\ done.outcome # "Hang"
                      THEN TickAccount(ticked, event, windata, done)
                      ELSE ticked
        /\ exit_flagged' = (exit_flagged
                                \/ (done.outcome = "Running" /\ done.wc.status.exit))
        /\ IF done.outcome = "Hang"
           THEN /\ phase' = "Hung"
                /\ UNCHANGED <<windata, control_flow>>
           ELSE /\ phase' = next_phase
                /\ windata' = done.wc.windata
                /\ control_flow' = EventLoop_control_flow(control_flow,
                                        run_closure(control_flow, done))
    /\ UNCHANGED tree_vars

\* NewEvents(StartCause::Init): the first call
DispatchInit(b) ==
    /\ phase = "NotStarted"
    /\ \E now \in clock..b.max_time, h \in Handlers(b) :
          Dispatch(b, Plain("Init"), now, h, TRUE, "Events")

\* NewEvents(StartCause::ResumeTimeReached): the WaitUntil deadline passed
DispatchResumeTimeReached(b) ==
    /\ phase = "Idle"
    /\ control_flow.kind = "WaitUntil"
    /\ \E now \in clock..b.max_time, h \in Handlers(b) :
          /\ now >= control_flow.t
          /\ Dispatch(b, Plain("ResumeTimeReached"), now, h, TRUE, "Events")

\* NewEvents with another cause: WaitCancelled (an event arrived before the
\* deadline) or Poll
DispatchNewEventsOther(b) ==
    /\ phase = "Idle"
    /\ \E cause \in {"WaitCancelled", "Poll"} :
          /\ cause = "WaitCancelled" =>
                (control_flow.kind = "WaitUntil" /\ clock < control_flow.t)
          /\ cause = "Poll" => control_flow.kind = "Poll"
          /\ Dispatch(b, Plain(cause), clock, Unused, TRUE, "Events")

DispatchResized(b) ==
    /\ phase = "Events"
    /\ \E size \in b.sizes, h \in Handlers(b) :
          Dispatch(b, NativeEvent("Resized", size[1], size[2], NoNativeModifiers),
                   clock, h, TRUE, "Events")

DispatchCloseRequested(b) ==
    /\ phase = "Events"
    /\ \E h \in Handlers(b) :
          Dispatch(b, Plain("CloseRequested"), clock, h, TRUE, "Events")

\* virtual_keycode 0 is None; state 1 is Pressed, 0 Released
DispatchKeyboardInput(b) ==
    /\ phase = "Events"
    /\ \E virtual_keycode \in 0..1, state \in 0..1, h \in Handlers(b) :
          /\ virtual_keycode = 0 => h = Unused
          /\ Dispatch(b, NativeEvent("KeyboardInput", virtual_keycode, state,
                                     NoNativeModifiers),
                      clock, h, TRUE, "Events")

DispatchMouseInput(b) ==
    /\ phase = "Events"
    /\ \E state \in 0..1, h \in Handlers(b) :
          Dispatch(b, NativeEvent("MouseInput", 1, state, NoNativeModifiers),
                   clock, h, TRUE, "Events")

DispatchModifiersChanged(b) ==
    /\ phase = "Events"
    /\ \E modifiers \in b.modifiers, h \in Handlers(b) :
          Dispatch(b, NativeEvent("ModifiersChanged", 0, 0, modifiers),
                   clock, h, TRUE, "Events")

DispatchPassThrough(b) ==
    /\ phase = "Events"
    /\ \E kind \in b.pass_through, h \in Handlers(b) :
          Dispatch(b, Plain(kind), clock, h, TRUE, "Events")

DispatchUnlisted(b) ==
    /\ phase = "Events"
    /\ \E kind \in b.unlisted :
          Dispatch(b, Plain(kind), clock, Unused, TRUE, "Events")

DispatchMainEventsCleared(b) ==
    /\ phase = "Events"
    /\ Dispatch(b, Plain("MainEventsCleared"), clock, Unused, TRUE, "Redraw")

DispatchRedrawRequested(b) ==
    /\ phase = "Redraw"
    /\ \E h \in Handlers(b), swap_ok \in BOOLEAN :
          Dispatch(b, Plain("RedrawRequested"), clock, h, swap_ok, "Redraw")

DispatchRedrawEventsCleared(b) ==
    /\ phase = "Redraw"
    /\ Dispatch(b, Plain("RedrawEventsCleared"), clock, Unused, TRUE, "Idle")

\* the last call, after the loop found Exit at the end of an iteration
DispatchLoopDestroyed(b) ==
    /\ phase = "Idle"
    /\ control_flow = Exit
    /\ Dispatch(b, Plain("LoopDestroyed"), clock, Unused, TRUE, "Destroyed")

\* the closure has returned: the event loop goes on to its next event
AwaitNextEvent ==
    /\ disp # NoDispatch
    /\ phase # "Hung"
    /\ disp' = NoDispatch
    /\ UNCHANGED <<clock, windata, control_flow, phase, exit_flagged, closed,
                   ticked>>
    /\ UNCHANGED tree_vars

(***************************************************************************)
(* Claims about the dispatcher and the run loop.  They are stated on the   *)
(* dispatch that has just finished (disp) and the state it left.           *)
(***************************************************************************)
Finished == disp # NoDispatch /\ disp.outcome # "Hang"

\* a ResumeTimeReached dispatch at now = next_tick + 2.5 T, with T > 0 and
\* a handler that leaves the tick duration alone
TwoAndAHalfIntervalsLate ==
    /\ Finished
    /\ disp.event.kind = "ResumeTimeReached"
    /\ disp.pre.tick_duration > 0
    /\ 2 * (disp.now - disp.pre.next_tick) = 5 * disp.pre.tick_duration
    /\ "set_tick_duration" \notin disp.calls

OneTick(ticks_passed) ==
    /\ Len(disp.delivered) = 1
    /\ disp.delivered[1].type = "Tick"
    /\ disp.delivered[1].a = ticks_passed
    /\ windata.next_tick = disp.pre.next_tick + ticks_passed * disp.pre.tick_duration

\* C1, as stated: a ResumeTimeReached dispatch at now = next_tick + 2.5 T
\* delivers exactly one Tick with ticks_passed = 2 and leaves next_tick at the
\* original next_tick + 2 T.
C1_CatchUpCountsTwo == TwoAndAHalfIntervalsLate => OneTick(2)

\* C1, amended: a ResumeTimeReached dispatch at now = next_tick + 2.5 T
\* delivers exactly one Tick with ticks_passed = 3 (the deadlines next_tick,
\* next_tick + T and next_tick + 2 T have all passed), whose time is the last
\* of them, and leaves next_tick at the original next_tick + 3 T.
C1_CatchUpCountsThree ==
    TwoAndAHalfIntervalsLate =>
        /\ OneTick(3)
        /\ disp.delivered[1].b = disp.pre.next_tick + 2 * disp.pre.tick_duration

C1_Witness ==
    /\ TwoAndAHalfIntervalsLate
    /\ disp.pre.tick_duration = 2
    /\ disp.delivered[1].a = 3

\* C2, as stated: a CloseRequested dispatch that returns a status returns
\* exit = true, which the handler already saw set, and leaves the control flow
\* at Exit whatever the handler did; and once a dispatch has returned
\* exit = true, no later dispatch invokes the handler.
C2_NoHandlerCallAfterExit ==
    /\ (Finished /\ disp.event.kind = "CloseRequested") =>
          /\ disp.saw[1].exit
          /\ disp.outcome = "Ok" => disp.status.exit
          /\ control_flow = Exit
    /\ (Finished /\ disp.after_exit) => disp.delivered = <<>>

\* the case of C2 that fails: the handler is called after exit = true
C2_Witness ==
    /\ Finished
    /\ disp.after_exit
    /\ disp.delivered # <<>>

RedrawDispatch == Finished /\ disp.event.kind = "RedrawRequested"

\* C6, as stated: in every dispatch of a redraw event the handler is given
\* RedrawRequested and swap_buffers is attempted after it, whatever the
\* handler returns.
C6_SwapAfterEveryRedraw ==
    RedrawDispatch =>
        /\ Len(disp.delivered) = 1
        /\ disp.delivered[1].type = "RedrawRequested"
        /\ disp.trace = <<"event_handler", "swap_buffers">>

\* C6, amended: in every dispatch of a redraw event the handler is given
\* RedrawRequested first; swap_buffers is attempted after it exactly when the
\* handler returns Ok (close() or not), and not at all when it returns Err.
C6_SwapAfterRedrawUnlessErr ==
    RedrawDispatch =>
        /\ Len(disp.delivered) = 1
        /\ disp.delivered[1].type = "RedrawRequested"
        /\ disp.returned = <<"Ok">> =>
              disp.trace = <<"event_handler", "swap_buffers">>
        /\ disp.returned = <<"Err">> =>
              (disp.trace = <<"event_handler">> /\ disp.swap = "None")

C6_Witness ==
    /\ RedrawDispatch
    /\ disp.returned = <<"Err">>
    /\ disp.trace = <<"event_handler">>

\* the native events for which process_event calls the handler
ReachesHandler ==
    \/ disp.event.kind \in
          {"Init", "Resized", "CloseRequested", "MouseInput", "ModifiersChanged",
           "RedrawRequested"} \cup PassThroughKinds
    \/ disp.event.kind = "KeyboardInput" /\ disp.event.a # 0
    \/ disp.event.kind = "ResumeTimeReached" /\ disp.now >= disp.pre.next_tick

\* C7, as stated: every dispatch delivers exactly one typed Event to the
\* handler, for every kind of native event.
C7_ExactlyOneEventPerDispatch ==
    Finished => (Len(disp.delivered) = 1 /\ Len(disp.returned) = 1)

\* C7, amended: every dispatch delivers at most one typed Event, in one call
\* of the handler; it delivers one exactly for the native events that have a
\* typed counterpart, and none for LoopDestroyed, MainEventsCleared,
\* RedrawEventsCleared, NewEvents with a cause other than Init and
\* ResumeTimeReached, ResumeTimeReached before next_tick, a KeyboardInput
\* without a virtual key code, and the other native events.
C7_AtMostOneEventPerDispatch ==
    Finished =>
        /\ Len(disp.delivered) <= 1
        /\ Len(disp.returned) = Len(disp.delivered)
        /\ Len(disp.delivered) = 1 <=> ReachesHandler

C7_Witness ==
    /\ Finished
    /\ disp.event.kind = "KeyboardInput"
    /\ disp.event.a = 0
    /\ disp.delivered = <<>>

\* C8: a handler error on any typed event and a failed buffer swap both make
\* the dispatch return Err; the closure then writes Exit to the control flow,
\* whatever the exit flag of the dispatch was, and the dispatch is not tried
\* again: the handler was called once and swap_buffers at most once.
C8_ErrorsAreFatal ==
    Finished =>
        /\ disp.outcome = "Err" <=>
              (disp.returned = <<"Err">> \/ disp.swap = "Err")
        /\ disp.outcome = "Err" =>
              /\ disp.written = Exit
              /\ control_flow = Exit
              /\ Len(disp.returned) = 1
              /\ Len(disp.trace) <= 2

C8_Witness ==
    /\ Finished
    /\ disp.swap = "Err"
    /\ ~disp.status.exit
    /\ ~disp.exiting
    /\ control_flow = Exit

\* the number of deadlines next_tick, next_tick + T, ... that are <= now
RECURSIVE DeadlinesPassed(_, _, _)
DeadlinesPassed(now, next_tick, tick_duration) ==
    IF now >= next_tick
    THEN 1 + DeadlinesPassed(now, next_tick + tick_duration, tick_duration)
    ELSE 0

\* C11: a ResumeTimeReached dispatch delivers at most one event, a Tick that
\* counts all the elapsed intervals, however many they are; and when no
\* interval has elapsed (now < next_tick) it delivers nothing and leaves
\* next_tick as it was.
C11_AtMostOneTickPerDeadline ==
    (Finished /\ disp.event.kind = "ResumeTimeReached") =>
        /\ Len(disp.delivered) <= 1
        /\ Len(disp.returned) = Len(disp.delivered)
        /\ disp.now >= disp.pre.next_tick =>
              /\ Len(disp.delivered) = 1
              /\ disp.delivered[1].type = "Tick"
              /\ disp.delivered[1].a =
                    DeadlinesPassed(disp.now, disp.pre.next_tick, disp.pre.tick_duration)
        /\ disp.now < disp.pre.next_tick =>
              /\ disp.delivered = <<>>
              /\ windata.next_tick = disp.pre.next_tick

\* the deadline is reported reached before next_tick
C11_Witness ==
    /\ Finished
    /\ disp.event.kind = "ResumeTimeReached"
    /\ disp.now < disp.pre.next_tick
    /\ disp.delivered = <<>>

C11_ManyIntervalsWitness ==
    /\ Finished
    /\ disp.event.kind = "ResumeTimeReached"
    /\ Len(disp.delivered) = 1
    /\ disp.delivered[1].a >= 2

\* the step is a dispatch that calls the handler
HandlerCalledInStep ==
    /\ disp = NoDispatch
    /\ disp' # NoDispatch
    /\ disp'.delivered # <<>>

EventLoopStartedInStep ==
    /\ HandlerCalledInStep
    /\ disp'.delivered[1].type = "EventLoopStarted"

\* C12: the NewEvents(Init) dispatch sets next_tick = now + tick_duration
\* (the status carries it as the wait deadline, and next_tick keeps it unless
\* the handler calls set_tick_duration) and delivers EventLoopStarted; over a
\* run EventLoopStarted is delivered once, in the first dispatch, before any
\* event of another type reaches the handler.
C12_EventLoopStartedOnceAndFirst ==
    /\ [](Finished /\ disp.event.kind = "Init" =>
            /\ Len(disp.delivered) = 1
            /\ disp.delivered[1].type = "EventLoopStarted"
            /\ disp.status.wait_until = Some(disp.now + disp.pre.tick_duration)
            /\ "set_tick_duration" \notin disp.calls =>
                  windata.next_tick = disp.now + disp.pre.tick_duration)
    /\ [][HandlerCalledInStep => (EventLoopStartedInStep <=> phase = "NotStarted")]_vars
    /\ [][(disp' # NoDispatch /\ phase = "NotStarted") => EventLoopStartedInStep]_vars
    /\ [][phase' = "NotStarted" => (phase = "NotStarted" /\ disp' = NoDispatch)]_vars

\* the loop started after the window was built: now is later than the
\* Instant::now() of Window::new
C12_Witness ==
    /\ Finished
    /\ disp.event.kind = "Init"
    /\ disp.now > 0
    /\ disp.delivered[1].type = "EventLoopStarted"
    /\ windata.next_tick = disp.now + disp.pre.tick_duration

\* the ModifierState a native modifiers-changed event carries
Carried(event) ==
    [shift |-> event.modifiers.shift, ctrl |-> event.modifiers.ctrl,
     alt |-> event.modifiers.alt, super_ |-> event.modifiers.logo]

\* C13: in a ModifiersChanged dispatch the handler's get_modifiers() already
\* returns the state the event carries, which is also the payload of the
\* typed event and the state stored afterwards; in a dispatch of any other
\* event the handler's get_modifiers() returns the stored state, which the
\* dispatch leaves as it was: the state of the last modifiers-changed event.
C13_ModifiersStoredBeforeDelivery ==
    /\ [](Finished /\ disp.event.kind = "ModifiersChanged" =>
            /\ Len(disp.saw) = 1
            /\ disp.saw[1].modifiers = Carried(disp.event)
            /\ disp.delivered[1].type = "ModifiersChanged"
            /\ disp.delivered[1].modifiers = Carried(disp.event)
            /\ windata.modifiers = Carried(disp.event))
    /\ [](Finished /\ disp.event.kind # "ModifiersChanged" =>
            /\ windata.modifiers = disp.pre.modifiers
            /\ \A i \in 1..Len(disp.saw) : disp.saw[i].modifiers = disp.pre.modifiers)
    /\ [][disp' = NoDispatch => windata'.modifiers = windata.modifiers]_vars
    /\ [][disp' # NoDispatch /\ disp = NoDispatch => disp'.pre = windata]_vars

\* a later dispatch whose handler reads the state a modifiers-changed event
\* stored
C13_Witness ==
    /\ Finished
    /\ disp.event.kind = "Focused"
    /\ Len(disp.saw) = 1
    /\ disp.saw[1].modifiers = ModifierState(TRUE, FALSE, FALSE, TRUE)

\* C14: in a Resized dispatch the context is resized to the new size before
\* the handler is called, and the Resized event the handler gets carries the
\* native event's size.
C14_ResizedBeforeDelivery ==
    (Finished /\ disp.event.kind = "Resized") =>
        /\ disp.trace = <<"resize", "event_handler">>
        /\ Len(disp.delivered) = 1
        /\ disp.delivered[1].type = "Resized"
        /\ <<disp.delivered[1].a, disp.delivered[1].b>> = <<disp.event.a, disp.event.b>>
        /\ disp.saw[1].size = <<disp.event.a, disp.event.b>>
        /\ windata.windowed_context.size = <<disp.event.a, disp.event.b>>

C14_Witness ==
    /\ Finished
    /\ disp.event.kind = "Resized"
    /\ disp.pre.windowed_context.size = <<800, 600>>
    /\ disp.delivered[1].a = 640 /\ disp.delivered[1].b = 480
    /\ disp.saw[1].size = <<640, 480>>

\* C15, as stated: a dispatch whose handler calls close() and returns Ok
\* runs to its end (a redraw dispatch still attempts the buffer swap), its
\* status has exit = true when it returns one, and the closure then leaves the
\* control flow at Exit; and after such a dispatch no later dispatch calls the
\* handler.
C15_NoHandlerCallAfterClose ==
    /\ (Finished /\ "close" \in disp.calls /\ disp.returned = <<"Ok">>) =>
          /\ disp.event.kind = "RedrawRequested" =>
                disp.trace = <<"event_handler", "swap_buffers">>
          /\ disp.outcome = "Ok" => disp.status.exit
          /\ control_flow = Exit
    /\ (Finished /\ disp.after_close) => disp.delivered = <<>>

\* the case of C15 that fails: the handler is called after a dispatch in
\* which it called close()
C15_Witness ==
    /\ Finished
    /\ disp.after_close
    /\ disp.delivered # <<>>

\* C20, as stated: every dispatch runs to completion: for every native event
\* and every controller state the handler can leave, set_tick_duration(0)
\* included, process_event returns a status or an error.
C20_EveryDispatchReturns ==
    disp # NoDispatch => disp.outcome \in {"Ok", "Err"}

\* the case of C20 that fails: the deadline is reached with tick_duration = 0
\* after the handler called set_tick_duration(0) in an earlier dispatch
C20_Witness ==
    /\ phase = "Hung"
    /\ disp.event.kind = "ResumeTimeReached"
    /\ disp.pre.tick_duration = 0
    /\ disp.now >= disp.pre.next_tick

\* C21: set_tick_duration(d) sets tick_duration = d and next_tick = now + d,
\* with now the instant the setter reads; a dispatch whose handler does not
\* call the setter leaves tick_duration unchanged, and leaves next_tick
\* unchanged too unless it is the Start (Init) or the tick
\* (ResumeTimeReached) dispatch.
C21_TickStateChangesOnlyBySetterStartAndCatchUp ==
    Finished =>
        IF "set_tick_duration" \in disp.calls
        THEN /\ windata.tick_duration = disp.setter.duration
             /\ windata.next_tick = disp.setter.now + disp.setter.duration
        ELSE /\ windata.tick_duration = disp.pre.tick_duration
             /\ disp.event.kind \notin {"Init", "ResumeTimeReached"} =>
                    windata.next_tick = disp.pre.next_tick

\* a handler that handles a window event calls set_tick_duration with a new
\* duration, some time after the dispatch began
C21_Witness ==
    /\ Finished
    /\ disp.event.kind = "Focused"
    /\ "set_tick_duration" \in disp.calls
    /\ disp.setter.now > disp.now
    /\ disp.setter.duration # disp.pre.tick_duration
    /\ windata.tick_duration = disp.setter.duration
    /\ windata.next_tick = disp.setter.now + disp.setter.duration
    /\ windata.next_tick # disp.pre.next_tick

\* a dispatch of a window event whose handler leaves the setter alone, with
\* the deadline already passed
C21_FrameWitness ==
    /\ Finished
    /\ disp.event.kind = "Resized"
    /\ disp.delivered # <<>>
    /\ "set_tick_duration" \notin disp.calls
    /\ disp.now >= disp.pre.next_tick
    /\ windata.next_tick = disp.pre.next_tick

\* the wait policy of the run loop after the dispatch that has just
\* returned Ok(status)
WaitPolicy ==
    IF disp.status.exit
    THEN control_flow = Exit
    ELSE IF disp.status.wait_until.some
         THEN control_flow = WaitUntil(disp.status.wait_until.t)
         ELSE control_flow.kind = "Wait"

\* after a tick dispatch the wait deadline is the next_tick it left
TickDeadline ==
    (disp.event.kind = "ResumeTimeReached" /\ ~disp.status.exit) =>
        control_flow = WaitUntil(windata.next_tick)

C22_ExitingWitness ==
    /\ Finished
    /\ disp.outcome = "Ok"
    /\ disp.exiting
    /\ ~disp.status.exit
    /\ disp.status.wait_until.some
    /\ control_flow = Exit

\* C23: the stored ModifierState is all false when the window is built; a
\* ModifiersChanged dispatch stores the state the native event carries; every
\* other dispatch leaves it as it was, whatever controller methods the
\* handler called (close, request_redraw, set_title, set_tick_duration,
\* get_modifiers).
C23_ModifiersChangeOnlyOnModifiersChanged ==
    /\ (phase = "NotStarted" /\ disp = NoDispatch) =>
            windata.modifiers = ModifierState(FALSE, FALSE, FALSE, FALSE)
    /\ disp # NoDispatch =>
            IF disp.event.kind = "ModifiersChanged"
            THEN windata.modifiers =
                    ModifierState(disp.event.modifiers.shift,
                                  disp.event.modifiers.ctrl,
                                  disp.event.modifiers.alt,
                                  disp.event.modifiers.logo)
            ELSE windata.modifiers = disp.pre.modifiers

\* with modifiers held down, the handler of another event reads the
\* modifiers and calls every other controller method
C23_Witness ==
    /\ Finished
    /\ disp.event.kind = "Focused"
    /\ disp.pre.modifiers = ModifierState(TRUE, FALSE, FALSE, TRUE)
    /\ disp.saw[1].modifiers = disp.pre.modifiers
    /\ disp.calls = {"close", "request_redraw", "set_title", "set_tick_duration"}
    /\ windata.modifiers = disp.pre.modifiers

\* a tick dispatch that delivered its Tick event
TickDelivered ==
    /\ Finished
    /\ disp.event.kind = "ResumeTimeReached"
    /\ disp.delivered # <<>>

\* C26: when a Tick event is delivered, with T the tick_duration (T > 0),
\* now the instant the dispatcher read and next_tick_after the next_tick the
\* catch-up left (the one in place when the handler is called): the event's
\* time is next_tick_after - T, time <= now < time + T, and next_tick_after
\* is later than now.
C26_TickTimeIsLastBoundary ==
    TickDelivered =>
        LET T == disp.pre.tick_duration
            time == disp.delivered[1].b
            next_tick_after == disp.saw[1].next_tick
        IN  /\ disp.delivered[1].type = "Tick"
            /\ T > 0
            /\ disp.saw[1].tick_duration = T
            /\ time = next_tick_after - T
            /\ time <= disp.now
            /\ disp.now < time + T
            /\ next_tick_after > disp.now

\* a Tick delivered late, strictly between two interval boundaries, after
\* more than one interval
C26_Witness ==
    /\ TickDelivered
    /\ disp.pre.tick_duration = 2
    /\ disp.delivered[1].a >= 2
    /\ disp.delivered[1].b < disp.now
    /\ disp.delivered[1].b > disp.pre.next_tick

\* the account balances: next_tick is the next_tick the Start dispatch left
\* plus a whole multiple of the tick duration T, and the ticks_passed
\* delivered since add up to (next_tick - next_tick at Start) / T
AccountBalances ==
    LET T == windata.tick_duration
        elapsed == windata.next_tick - ticked.next_tick
    IN  /\ elapsed % T = 0
        /\ ticked.ticks_passed = elapsed \div T

\* C27, as stated: over any sequence of dispatches since Start in which the
\* tick duration T > 0 is not changed, next_tick is its value at Start plus a
\* whole multiple of T and the ticks_passed of all delivered Tick events add
\* up to (next_tick - next_tick at Start) / T.
C27_TicksAddUpWhileDurationUnchanged ==
    (ticked.started /\ ~ticked.duration_changed /\ windata.tick_duration > 0)
        => AccountBalances

\* C27, amended: the same over any sequence of dispatches since Start in
\* which the handler does not call set_tick_duration.
C27_TicksAddUpWhileSetterNotCalled ==
    (ticked.started /\ ~ticked.setter_called /\ windata.tick_duration > 0)
        => AccountBalances

\* with T = 2 set during Start and left alone, a second Tick event brings
\* the ticks delivered to two or more
C27_Witness ==
    /\ TickDelivered
    /\ ticked.started
    /\ ~ticked.setter_called
    /\ windata.tick_duration = 2
    /\ ticked.ticks_passed > disp.delivered[1].a
    /\ windata.next_tick = ticked.next_tick + 2 * ticked.ticks_passed

\* the case of the statement of C27 that fails: the handler calls
\* set_tick_duration with the duration already in force
C27_SameDurationWitness ==
    /\ ticked.started
    /\ ticked.setter_called
    /\ ~ticked.duration_changed
    /\ windata.tick_duration > 0
    /\ ~AccountBalances

\* C28, as stated: the wait_until of the status a successful dispatch
\* returns is the controller's next_tick at that moment, also when the handler
\* called set_tick_duration while handling EventLoopStarted or a non-tick
\* event.
C28_WaitUntilIsNextTick ==
    (Finished /\ disp.outcome = "Ok") =>
        disp.status.wait_until = Some(windata.next_tick)

\* the case of C28 that fails: the handler of EventLoopStarted or of a
\* non-tick event calls set_tick_duration, and the status returned still
\* carries the next_tick from before the call
C28_Witness ==
    /\ Finished
    /\ disp.outcome = "Ok"
    /\ disp.event.kind \in {"Init", "Focused"}
    /\ "set_tick_duration" \in disp.calls
    /\ disp.status.wait_until = Some(disp.saw[1].next_tick)
    /\ disp.status.wait_until # Some(windata.next_tick)

\* the rest of C28 holds: the returned wait_until is next_tick after a tick
\* dispatch and after every dispatch whose handler left the setter alone
WaitUntilIsNextTickUnlessSetterCalled ==
    (Finished /\ disp.outcome = "Ok"
        /\ (disp.event.kind = "ResumeTimeReached"
                \/ "set_tick_duration" \notin disp.calls)) =>
        disp.status.wait_until = Some(windata.next_tick)

\* the native events with no typed mapping
NoTypedMapping(event) ==
    \/ event.kind \in {"LoopDestroyed", "WaitCancelled", "Poll",
                       "MainEventsCleared", "RedrawEventsCleared"}
    \/ event.kind \in UnlistedKinds
    \/ event.kind = "KeyboardInput" /\ event.a = 0

\* C29: a dispatch invokes the handler at most once; for a native event
\* with no typed mapping (LoopDestroyed, keyboard input without a virtual key
\* code, NewEvents with a cause other than Init or ResumeTimeReached, an
\* unlisted window or loop event) it does not invoke it, returns a status with
\* exit = false and wait_until = next_tick, and leaves the WinData as it was.
C29_UnmappedEventsSkipHandler ==
    Finished =>
        /\ Len(disp.delivered) <= 1
        /\ Len(disp.returned) <= 1
        /\ NoTypedMapping(disp.event) =>
              /\ disp.delivered = <<>>
              /\ disp.trace = <<>>
              /\ disp.outcome = "Ok"
              /\ ~disp.status.exit
              /\ disp.status.wait_until = Some(disp.pre.next_tick)
              /\ windata = disp.pre

\* an unlisted event dispatched to a controller whose modifiers, size and
\* tick settings earlier dispatches have changed
C29_Witness ==
    /\ Finished
    /\ disp.event.kind = "UserEvent"
    /\ disp.delivered = <<>>
    /\ disp.pre.modifiers.shift
    /\ disp.pre.windowed_context.size = <<640, 480>>
    /\ disp.pre.tick_duration = 0
    /\ windata = disp.pre
    /\ disp.status = [exit |-> FALSE, wait_until |-> Some(windata.next_tick)]

\* a key without a virtual key code reaches no handler
C29_KeyWitness ==
    /\ Finished
    /\ disp.event.kind = "KeyboardInput" /\ disp.event.a = 0
    /\ disp.delivered = <<>>
    /\ disp.outcome = "Ok"

Next ==
    \/ DispatchInit(EventRun)
    \/ DispatchResumeTimeReached(EventRun)
    \/ DispatchNewEventsOther(EventRun)
    \/ DispatchResized(EventRun)
    \/ DispatchCloseRequested(EventRun)
    \/ DispatchKeyboardInput(EventRun)
    \/ DispatchMouseInput(EventRun)
    \/ DispatchModifiersChanged(EventRun)
    \/ DispatchPassThrough(EventRun)
    \/ DispatchUnlisted(EventRun)
    \/ DispatchMainEventsCleared(EventRun)
    \/ DispatchRedrawRequested(EventRun)
    \/ DispatchRedrawEventsCleared(EventRun)
    \/ DispatchLoopDestroyed(EventRun)
    \/ AwaitNextEvent

TickNext ==
    \/ DispatchInit(TickRun)
    \/ DispatchResumeTimeReached(TickRun)
    \/ DispatchNewEventsOther(TickRun)
    \/ DispatchResized(TickRun)
    \/ DispatchCloseRequested(TickRun)
    \/ DispatchKeyboardInput(TickRun)
    \/ DispatchMouseInput(TickRun)
    \/ DispatchModifiersChanged(TickRun)
    \/ DispatchPassThrough(TickRun)
    \/ DispatchUnlisted(TickRun)
    \/ DispatchMainEventsCleared(TickRun)
    \/ DispatchRedrawRequested(TickRun)
    \/ DispatchRedrawEventsCleared(TickRun)
    \/ DispatchLoopDestroyed(TickRun)
    \/ AwaitNextEvent

CallNext ==
    \/ DispatchInit(CallRun)
    \/ DispatchResumeTimeReached(CallRun)
    \/ DispatchNewEventsOther(CallRun)
    \/ DispatchResized(CallRun)
    \/ DispatchCloseRequested(CallRun)
    \/ DispatchKeyboardInput(CallRun)
    \/ DispatchMouseInput(CallRun)
    \/ DispatchModifiersChanged(CallRun)
    \/ DispatchPassThrough(CallRun)
    \/ DispatchUnlisted(CallRun)
    \/ DispatchMainEventsCleared(CallRun)
    \/ DispatchRedrawRequested(CallRun)
    \/ DispatchRedrawEventsCleared(CallRun)
    \/ DispatchLoopDestroyed(CallRun)
    \/ AwaitNextEvent

AccountNext ==
    \/ DispatchInit(AccountRun)
    \/ DispatchResumeTimeReached(AccountRun)
    \/ DispatchNewEventsOther(AccountRun)
    \/ DispatchResized(AccountRun)
    \/ DispatchCloseRequested(AccountRun)
    \/ DispatchKeyboardInput(AccountRun)
    \/ DispatchMouseInput(AccountRun)
    \/ DispatchModifiersChanged(AccountRun)
    \/ DispatchPassThrough(AccountRun)
    \/ DispatchUnlisted(AccountRun)
    \/ DispatchMainEventsCleared(AccountRun)
    \/ DispatchRedrawRequested(AccountRun)
    \/ DispatchRedrawEventsCleared(AccountRun)
    \/ DispatchLoopDestroyed(AccountRun)
    \/ AwaitNextEvent

MethodNext ==
    \/ DispatchInit(MethodRun)
    \/ DispatchResumeTimeReached(MethodRun)
    \/ DispatchNewEventsOther(MethodRun)
    \/ DispatchResized(MethodRun)
    \/ DispatchCloseRequested(MethodRun)
    \/ DispatchKeyboardInput(MethodRun)
    \/ DispatchMouseInput(MethodRun)
    \/ DispatchModifiersChanged(MethodRun)
    \/ DispatchPassThrough(MethodRun)
    \/ DispatchUnlisted(MethodRun)
    \/ DispatchMainEventsCleared(MethodRun)
    \/ DispatchRedrawRequested(MethodRun)
    \/ DispatchRedrawEventsCleared(MethodRun)
    \/ DispatchLoopDestroyed(MethodRun)
    \/ AwaitNextEvent

Init == TreeInit /\ WinInit

\* the run loop with every kind of native event, over a short time
Spec == Init /\ [][Next]_vars

\* the run loop over a longer time, with one payload per kind of event
TickSpec == Init /\ [][TickNext]_vars

\* the run loop over the longer time, with the tick account kept
AccountSpec == Init /\ [][AccountNext]_vars

\* the run loop with a handler that calls every controller method
MethodSpec == Init /\ [][MethodNext]_vars

\* process_event called from any state of the controller
AnyInit == TreeInit /\ CallInit

CallSpec == AnyInit /\ [][CallNext]_vars

\* the render tree, with the children the getters hand out
TreeMutNext ==
    \/ TreeNext
    \/ ChildSetViewport

TreeMutSpec == Init /\ [][TreeMutNext]_vars

\* nested render trees and render()
RenderSpec == Init /\ [][RenderNext]_vars

\* the render tree
TreeSpec == Init /\ [][TreeNext]_vars

====
